---------------------------- MODULE Spec2Model ----------------------------
(***************************************************************************)
(* A model of graphql-parser: the tokenizer (src/src/tokenizer.rs), the    *)
(* literal codec (unquote_string / unquote_block_string in                 *)
(* src/src/common.rs, Formatter::write_quoted in src/src/format.rs), the   *)
(* query grammar (src/src/query/grammar.rs, src/src/common.rs) and the     *)
(* query formatter (src/src/query_format.rs).                              *)
(*                                                                         *)
(* A character is its Unicode code point (a natural number); a string is a *)
(* sequence of characters.  The alphabets the inputs are drawn from are    *)
(* ASCII except where stated, so that Rust's byte offsets and character    *)
(* offsets coincide.                                                       *)
(***************************************************************************)
EXTENDS Integers, Sequences, FiniteSets, TLC

VARIABLES
    op,          \* which entry point this behaviour exercises
    pc,          \* the position inside that entry point
    value,       \* codec: the string handed to Formatter::write_quoted
    fmt,         \* codec: the Formatter (buf, indent, style)
    token,       \* codec: the literal handed to unquote_string / unquote_block_string
    unq,         \* codec: the Result of the unquote call
    buf,         \* TokenStream.buf
    off,         \* TokenStream.off
    position,    \* TokenStream.position
    next_state,  \* TokenStream.next_state
    last,        \* the Result of the last uncons, and the offset it was called at
    saved,       \* the Checkpoint last taken from the stream
    source,      \* parser: the text handed to parse_query / consume_definition
    parsed,      \* parser: the Result of parse_query or consume_definition
    text,        \* parser: Document::format of the parsed document
    reparsed,    \* parser: the Result of parse_query(text)
    text2,       \* parser: Document::format of the reparsed document
    stack,       \* parser: the parsers whose parse_stream is running, outermost first
    ret,         \* parser: the ParseResult the parser that ran last has returned
    bits,        \* minify_query: the pieces of the output pushed so far
    prev_was_punctuator,  \* minify_query: the local of that name
    minified,    \* minify_query: the Result it returns
    document,    \* visitors: the Document visited
    doc_iter,    \* visitors: DocumentFieldIter.doc_iter, the definitions left
    field_iter,  \* visitors: the Option of a FieldIter, as its stack
    visited,     \* visitors: the fields next has returned, or the calls
                 \* of hooks walk_document has made, in order
    transformer, \* transformer: the hook the Transformer overrides
    transformed, \* transformer: what transform_document has returned
    replay       \* formatter: the indent of a Formatter as a u32, with the
                 \* calls that change it still to come

vars == <<op, pc, value, fmt, token, unq, buf, off, position, next_state,
          last, saved, source, parsed, text, reparsed, text2, stack, ret,
          bits, prev_was_punctuator, minified,
          document, doc_iter, field_iter, visited,
          transformer, transformed, replay>>

codecVars == <<value, fmt, token, unq>>
streamVars == <<buf, off, position, next_state, last, saved>>
parserVars == <<source, parsed, text, reparsed, text2, stack, ret>>
minifyVars == <<bits, prev_was_punctuator, minified>>
walkVars == <<document, doc_iter, field_iter, visited,
              transformer, transformed, replay>>

-----------------------------------------------------------------------------
(* Characters *)

\* The characters from " " (code point 32) to "~" (126) in the order of their
\* code points; the place of the grave accent (96), which no text of the
\* model holds, is left empty.
Printable ==
    <<" ", "!", "\"", "#", "$", "%", "&", "'", "(", ")", "*", "+", ",",
      "-", ".", "/", "0", "1", "2", "3", "4", "5", "6", "7", "8", "9", ":",
      ";", "<", "=", ">", "?", "@", "A", "B", "C", "D", "E", "F", "G", "H",
      "I", "J", "K", "L", "M", "N", "O", "P", "Q", "R", "S", "T", "U", "V",
      "W", "X", "Y", "Z", "[", "\\", "]", "^", "_", "", "a", "b", "c", "d",
      "e", "f", "g", "h", "i", "j", "k", "l", "m", "n", "o", "p", "q", "r",
      "s", "t", "u", "v", "w", "x", "y", "z", "{", "|", "}", "~">>

\* The code points of the characters the model names.
Ch ==
    [c \in {"\t", "\n", "\r"} \cup {Printable[i] : i \in 1..Len(Printable)} |->
        CASE c = "\t" -> 9
          [] c = "\n" -> 10
          [] c = "\r" -> 13
          [] OTHER -> 31 + CHOOSE i \in 1..Len(Printable) : Printable[i] = c]

\* The string whose characters are named, one by one, by the sequence cs.
Str(cs) == [i \in 1..Len(cs) |-> Ch[cs[i]]]

\* All strings over the alphabet A of length at most n.
RECURSIVE StringsUpTo(_, _)
StringsUpTo(A, n) ==
    IF n = 0 THEN {<<>>}
    ELSE LET shorter == StringsUpTo(A, n - 1)
         IN  shorter \cup {Append(s, c) : s \in shorter, c \in A}

\* Rust's s.starts_with(p).
StartsWith(s, p) == Len(s) >= Len(p) /\ SubSeq(s, 1, Len(p)) = p

\* Rust's s.ends_with(p).
EndsWith(s, p) ==
    Len(s) >= Len(p) /\ SubSeq(s, Len(s) - Len(p) + 1, Len(s)) = p

\* The suffix of s that starts after its first n characters (Rust's &s[n..]).
Drop(s, n) == SubSeq(s, n + 1, Len(s))

\* The concatenation of the strings of the sequence ss.
RECURSIVE Concat(_)
Concat(ss) == IF ss = <<>> THEN <<>> ELSE Head(ss) \o Concat(Tail(ss))

\* The strings of the sequence ss joined with the separator sep.
RECURSIVE Join(_, _)
Join(ss, sep) ==
    IF ss = <<>> THEN <<>>
    ELSE IF Len(ss) = 1 THEN ss[1]
    ELSE ss[1] \o sep \o Join(Tail(ss), sep)

\* n copies of the character c.
Repeat(c, n) == [i \in 1..n |-> c]

\* n copies of the string s, one after the other.
RECURSIVE RepeatStr(_, _)
RepeatStr(s, n) == IF n = 0 THEN <<>> ELSE s \o RepeatStr(s, n - 1)

-----------------------------------------------------------------------------
(* Rust's str primitives used by the codec *)

\* The least element of the non-empty set of integers S.
Min(S) == CHOOSE x \in S : \A y \in S : x <= y

\* The greatest element of the non-empty set of integers S.
Max(S) == CHOOSE x \in S : \A y \in S : x >= y

\* The index of the first occurrence of the character c in s, or 0.
IndexOf(s, c) ==
    LET I == {i \in 1..Len(s) : s[i] = c}
    IN  IF I = {} THEN 0 ELSE Min(I)

\* char::is_whitespace: the code points with the White_Space property.
IsWhitespace(c) ==
    \/ c \in 9..13
    \/ c \in {32, 133, 160, 5760, 8232, 8233, 8239, 8287, 12288}
    \/ c \in 8192..8202

\* The number of leading whitespace characters of line, which is
\* line.len() - line.trim_start().len().
LeadingWhitespace(line) ==
    LET N == {i \in 1..Len(line) : ~IsWhitespace(line[i])}
    IN  IF N = {} THEN Len(line) ELSE Min(N) - 1

\* line.trim().is_empty()
IsBlank(line) == \A i \in 1..Len(line) : IsWhitespace(line[i])

\* str::lines: the pieces between line feeds, each without the carriage
\* return that directly precedes its line feed; a final line feed ends the
\* last line and starts no empty one.
RECURSIVE Lines(_)
Lines(s) ==
    IF s = <<>> THEN <<>>
    ELSE LET i == IndexOf(s, Ch["\n"])
         IN  IF i = 0 THEN <<s>>
             ELSE LET raw == SubSeq(s, 1, i - 1)
                      line == IF raw # <<>> /\ raw[Len(raw)] = Ch["\r"]
                              THEN SubSeq(raw, 1, Len(raw) - 1)
                              ELSE raw
                  IN  <<line>> \o Lines(Drop(s, i))

\* str::replace: every non-overlapping occurrence of pat, from the left,
\* replaced by rep.
RECURSIVE Replace(_, _, _)
Replace(s, pat, rep) ==
    IF Len(s) < Len(pat) THEN s
    ELSE IF StartsWith(s, pat) THEN rep \o Replace(Drop(s, Len(pat)), pat, rep)
    ELSE <<Head(s)>> \o Replace(Tail(s), pat, rep)

\* The decimal digits of n, most significant first.
RECURSIVE Decimal(_)
Decimal(n) ==
    IF n < 10 THEN <<Ch["0"] + n>>
    ELSE Append(Decimal(n \div 10), Ch["0"] + (n % 10))

\* format!("{:04}", n): the decimal digits of n, zero-padded to width 4.
Pad04(n) ==
    LET d == Decimal(n)
    IN  IF Len(d) >= 4 THEN d ELSE Repeat(Ch["0"], 4 - Len(d)) \o d

TripleQuote == Str(<<"\"", "\"", "\"">>)
EscapedTripleQuote == Str(<<"\\", "\"", "\"", "\"">>)

-----------------------------------------------------------------------------
(* Formatter (src/src/format.rs) *)

\* Style::default()
DefaultStyle == [indent |-> 2, multiline_arguments |-> FALSE]

\* Formatter::new.  The field panic records that dec_indent has panicked,
\* and the field calls every change of the indent made so far, in order:
\* the calls of inc_indent and of dec_indent, and the `+=` and the `-=` of
\* write_quoted.
NewFormatter(style) ==
    [buf |-> <<>>, style |-> style, indent |-> 0, panic |-> FALSE,
     calls |-> <<>>]

write(f, s) == [f EXCEPT !.buf = @ \o s]

indent(f) == [f EXCEPT !.buf = @ \o Repeat(Ch[" "], f.indent)]

endline(f) == [f EXCEPT !.buf = Append(@, Ch["\n"])]

inc_indent(f) ==
    [f EXCEPT !.indent = @ + f.style.indent,
              !.calls = Append(@, "inc_indent")]

dec_indent(f) ==
    IF f.indent >= f.style.indent
    THEN [f EXCEPT !.indent = @ - f.style.indent,
                   !.calls = Append(@, "dec_indent")]
    ELSE [f EXCEPT !.panic = TRUE, !.calls = Append(@, "dec_indent")]

start_block(f) == inc_indent(endline(write(f, Str(<<"{">>))))

end_block(f) == endline(write(indent(dec_indent(f)), Str(<<"}">>)))

margin(f) == IF f.buf # <<>> THEN endline(f) ELSE f

\* The first loop of write_quoted: whether s has a line feed, and whether it
\* has a character outside tab, CR and U+0020..U+FFFF.
HasNewline(s) == \E i \in 1..Len(s) : s[i] = Ch["\n"]
HasNonprintable(s) ==
    \E i \in 1..Len(s) :
        ~(s[i] \in {Ch["\n"], Ch["\r"], Ch["\t"]} \/ s[i] \in 32..65535)

\* What the single-line branch of write_quoted writes for the character c.
QuoteChar(c) ==
    CASE c = Ch["\r"] -> Str(<<"\\", "r">>)
      [] c = Ch["\n"] -> Str(<<"\\", "n">>)
      [] c = Ch["\t"] -> Str(<<"\\", "t">>)
      [] c = Ch["\""] -> Str(<<"\\", "\"">>)
      [] c = Ch["\\"] -> Str(<<"\\", "\\">>)
      [] OTHER -> IF c \in 32..65535 THEN <<c>>
                  ELSE Str(<<"\\", "u">>) \o Pad04(c)

\* The loop of the triple-quote branch of write_quoted over s.lines().
RECURSIVE WriteBlockLines(_, _)
WriteBlockLines(f, lines) ==
    IF lines = <<>> THEN f
    ELSE LET line == Head(lines)
             g == IF ~IsBlank(line)
                  THEN write(indent(f),
                             Replace(line, TripleQuote, EscapedTripleQuote))
                  ELSE f
         IN  WriteBlockLines(endline(g), Tail(lines))

\* Whether write_quoted takes its single-line branch for s.
SingleLineForm(s) == ~HasNewline(s) \/ HasNonprintable(s)

\* Formatter::write_quoted
write_quoted(f, s) ==
    IF SingleLineForm(s)
    THEN LET body == Concat([i \in 1..Len(s) |-> QuoteChar(s[i])])
         IN  write(write(write(f, Str(<<"\"">>)), body), Str(<<"\"">>))
    ELSE LET f1 == endline(write(f, TripleQuote))
             f2 == [f1 EXCEPT !.indent = @ + f.style.indent,
                              !.calls = Append(@, "+=")]
             f3 == WriteBlockLines(f2, Lines(s))
             f4 == [f3 EXCEPT !.indent = @ - f.style.indent,
                              !.calls = Append(@, "-=")]
         IN  write(indent(f4), TripleQuote)

-----------------------------------------------------------------------------
(* unquote_string and unquote_block_string (src/src/common.rs) *)

Ok(v) == [ok |-> TRUE, val |-> v]
Err(msg) == [ok |-> FALSE, err |-> msg]

\* Option: None, or Some(x).
None == <<>>
Some(x) == <<x>>

\* The value of a Result variable before its call has been made.
NotRun == [ok |-> FALSE, err |-> "not run"]

\* char::to_digit(16), or -1 when c is no hexadecimal digit.
HexDigit(c) ==
    IF c \in Ch["0"]..Ch["9"] THEN c - Ch["0"]
    ELSE IF c \in Ch["a"]..Ch["f"] THEN c - Ch["a"] + 10
    ELSE IF c \in Ch["A"]..Ch["F"] THEN c - Ch["A"] + 10
    ELSE -1

\* u32::from_str_radix(s, 16) for a string of at most four characters: a
\* leading '+' is accepted when digits follow it, a '-' never is.
from_str_radix16(s) ==
    LET digits == IF Len(s) > 1 /\ s[1] = Ch["+"] THEN Tail(s) ELSE s
        RECURSIVE Val(_, _)
        Val(ds, acc) == IF ds = <<>> THEN acc
                        ELSE Val(Tail(ds), acc * 16 + HexDigit(Head(ds)))
    IN  IF s = <<>> \/ \E i \in 1..Len(digits) : HexDigit(digits[i]) < 0
        THEN Err("invalid digit")
        ELSE Ok(Val(digits, 0))

\* std::char::from_u32(n) is Some: n is a Unicode scalar value.
IsScalarValue(n) == n \in 0..55295 \/ n \in 57344..1114111

\* The while loop of unquote_string over the characters between the quotes.
RECURSIVE UnquoteChars(_, _)
UnquoteChars(chars, res) ==
    IF chars = <<>> THEN Ok(res)
    ELSE IF Head(chars) # Ch["\\"]
    THEN UnquoteChars(Tail(chars), Append(res, Head(chars)))
    ELSE IF Len(chars) < 2 THEN Err("panic: slash cant be at the end")
    ELSE LET e == chars[2]
             rest == Drop(chars, 2)
         IN  CASE e \in {Ch["\""], Ch["\\"], Ch["/"]} ->
                    UnquoteChars(rest, Append(res, e))
               [] e = Ch["b"] -> UnquoteChars(rest, Append(res, 16))
               [] e = Ch["f"] -> UnquoteChars(rest, Append(res, 12))
               [] e = Ch["n"] -> UnquoteChars(rest, Append(res, Ch["\n"]))
               [] e = Ch["r"] -> UnquoteChars(rest, Append(res, Ch["\r"]))
               [] e = Ch["t"] -> UnquoteChars(rest, Append(res, Ch["\t"]))
               [] e = Ch["u"] ->
                    IF Len(rest) < 4
                    THEN Err("\\u must have 4 characters after it")
                    ELSE LET n == from_str_radix16(SubSeq(rest, 1, 4))
                         IN  IF n.ok /\ IsScalarValue(n.val)
                             THEN UnquoteChars(Drop(rest, 4),
                                               Append(res, n.val))
                             ELSE Err("not a valid unicode code point")
               [] OTHER -> Err("bad escaped char")

\* unquote_string(s), for s that starts and ends with a double quote.
unquote_string(s) == UnquoteChars(SubSeq(s, 2, Len(s) - 1), <<>>)

\* usize::MAX, the initial common_indent.  It only has to exceed every line
\* length; TLC's integers end at 2^31 - 1.
UsizeMax == 2147483647

\* The indices (from 0, as enumerate gives them) of the lines that are not
\* entirely whitespace.
NonEmptyLines(lines) == {i \in 0..(Len(lines) - 1) : ~IsBlank(lines[i + 1])}

\* CommonIndent with the first line of the token counted too.
CommonIndentWithFirstLine(lines) ==
    LET I == {LeadingWhitespace(lines[i + 1]) : i \in NonEmptyLines(lines)}
    IN  IF I = {} THEN UsizeMax ELSE Min(I)

\* The common_indent the first loop of unquote_block_string computes.
CommonIndent(lines) ==
    LET I == {LeadingWhitespace(lines[i + 1]) :
                  i \in NonEmptyLines(lines) \ {0}}
    IN  IF I = {} THEN UsizeMax ELSE Min(I)

\* The closure that removes the indent: line idx (from 0) of the token.
RemoveIndent(idx, line, common_indent) ==
    IF idx # 0 /\ Len(line) >= common_indent
    THEN Drop(line, common_indent)
    ELSE line

\* unquote_block_string(src), for src that starts and ends with """.
unquote_block_string(src) ==
    LET lines == Lines(SubSeq(src, 4, Len(src) - 3))
        nonEmpty == NonEmptyLines(lines)
        common_indent == CommonIndent(lines)
    IN  IF nonEmpty = {} THEN Ok(<<>>)
        ELSE LET first_non_empty_line == Min(nonEmpty)
                 last_non_empty_line == -Min({-i : i \in nonEmpty})
                 kept == [k \in 1..(last_non_empty_line
                                      - first_non_empty_line + 1) |->
                            Replace(RemoveIndent(first_non_empty_line + k - 1,
                                        lines[first_non_empty_line + k],
                                        common_indent),
                                    EscapedTripleQuote, TripleQuote)]
             IN  Ok(Join(kept, <<Ch["\n"]>>))

-----------------------------------------------------------------------------
(* Tokenizer (src/src/tokenizer.rs) *)

\* A TokenStream is [buf, position, off, next_state]; off counts the
\* characters before the cursor.  A Token is [kind, value].
ErrArg(msg, arg) == [ok |-> FALSE, err |-> msg, arg |-> arg]

EndOfInput == Err("end of input")

IsDigit(c) == c \in Ch["0"]..Ch["9"]

IsAllDigits(s) == \A i \in 1..Len(s) : IsDigit(s[i])

\* The one-character punctuators.
Punctuators ==
    {Ch["!"], Ch["$"], Ch[":"], Ch["="], Ch["@"], Ch["|"], Ch["("], Ch[")"],
     Ch["["], Ch["]"], Ch["{"], Ch["}"]}

IsNameStart(c) ==
    c = Ch["_"] \/ c \in Ch["a"]..Ch["z"] \/ c \in Ch["A"]..Ch["Z"]

IsNameChar(c) == IsNameStart(c) \/ IsDigit(c)

\* The characters that end the scan of a number.
NumberDelimiters ==
    {Ch[" "], Ch["\n"], Ch["\r"], Ch["\t"], Ch[","], Ch["#"]} \cup Punctuators

\* check_int with the test of a leading "-0" left out.
check_int_no_minus_zero(v) ==
    \/ v = Str(<<"0">>)
    \/ v = Str(<<"-", "0">>)
    \/ /\ ~StartsWith(v, Str(<<"0">>))
       /\ v # Str(<<"-">>)
       /\ IsAllDigits(Drop(v, 1))

check_int(v) ==
    \/ v = Str(<<"0">>)
    \/ v = Str(<<"-", "0">>)
    \/ /\ ~StartsWith(v, Str(<<"0">>))
       /\ v # Str(<<"-">>)
       /\ ~StartsWith(v, Str(<<"-", "0">>))
       /\ IsAllDigits(Drop(v, 1))

check_dec(v) == Len(v) > 0 /\ IsAllDigits(v)

\* check_exp with the sign optional.
check_exp_sign_optional(v) ==
    \/ Len(v) >= 1 /\ IsAllDigits(v)
    \/ /\ StartsWith(v, Str(<<"-">>)) \/ StartsWith(v, Str(<<"+">>))
       /\ Len(v) >= 2
       /\ IsAllDigits(Drop(v, 1))

check_exp(v) ==
    /\ StartsWith(v, Str(<<"-">>)) \/ StartsWith(v, Str(<<"+">>))
    /\ Len(v) >= 2
    /\ IsAllDigits(Drop(v, 1))

\* check_float; exponent and real are None or Some(index from 0).
check_float(v, exponent, real) ==
    IF exponent # None /\ real # None
    THEN LET e == exponent[1]
             r == real[1]
         IN  IF e < r THEN FALSE
             ELSE /\ check_int(SubSeq(v, 1, r))
                  /\ check_dec(SubSeq(v, r + 2, e))
                  /\ check_exp(Drop(v, e + 1))
    ELSE IF exponent # None
    THEN /\ check_int(SubSeq(v, 1, exponent[1]))
         /\ check_exp(Drop(v, exponent[1] + 1))
    ELSE /\ check_int(SubSeq(v, 1, real[1]))
         /\ check_dec(Drop(v, real[1] + 1))

\* The stream with its cursor moved n characters along one line.
Advance(ts, n) ==
    [ts EXCEPT !.off = @ + n, !.position.column = @ + n]

\* TokenStream::update_position
update_position(ts, len) ==
    LET val == SubSeq(ts.buf, ts.off + 1, ts.off + len)
        nl == {i \in 1..len : val[i] = Ch["\n"]}
    IN  IF nl # {}
        THEN [ts EXCEPT !.off = @ + len,
                        !.position.line = @ + Cardinality(nl),
                        !.position.column = len - Max(nl) + 1]
        ELSE [ts EXCEPT !.off = @ + len, !.position.column = @ + len]

\* The starts (from 0) of the non-overlapping occurrences of pat in s, found
\* from the left as str::match_indices finds them; base is the offset of s.
RECURSIVE MatchIndices(_, _, _)
MatchIndices(s, pat, base) ==
    IF Len(s) < Len(pat) THEN <<>>
    ELSE IF StartsWith(s, pat)
    THEN <<base>> \o MatchIndices(Drop(s, Len(pat)), pat, base + Len(pat))
    ELSE MatchIndices(Tail(s), pat, base + 1)

\* That loop ending the token at the first double quote, whatever stands
\* before it.
RECURSIVE ScanStringToQuote(_, _, _, _, _)
ScanStringToQuote(ts, chars, idx, nchars, prev_char) ==
    IF chars = <<>> THEN Err("unterminated string value")
    ELSE IF Head(chars) = Ch["\""]
    THEN [ok |-> TRUE, kind |-> "StringValue", len |-> idx + 1,
          ts |-> [ts EXCEPT !.position.column = @ + nchars + 1,
                            !.off = @ + idx + 1]]
    ELSE IF Head(chars) = Ch["\n"]
    THEN Err("unterminated string value")
    ELSE ScanStringToQuote(ts, Tail(chars), idx + 1, nchars + 1, Head(chars))

\* The loop of peek_token over a single-line string: chars are the
\* characters after the opening quote, idx the index (from 0) of the first of
\* them, nchars and prev_char as in the code.
RECURSIVE ScanString(_, _, _, _, _)
ScanString(ts, chars, idx, nchars, prev_char) ==
    IF chars = <<>> THEN Err("unterminated string value")
    ELSE LET cur_char == Head(chars)
         IN  IF cur_char = Ch["\""] /\ prev_char # Ch["\\"]
             THEN [ok |-> TRUE, kind |-> "StringValue", len |-> idx + 1,
                   ts |-> [ts EXCEPT !.position.column = @ + nchars + 1,
                                     !.off = @ + idx + 1]]
             ELSE IF cur_char = Ch["\n"]
             THEN Err("unterminated string value")
             ELSE ScanString(ts, Tail(chars), idx + 1, nchars + 1, cur_char)

\* TokenStream::peek_token: Ok with the kind, the length and the stream moved
\* past the token, or Err with the stream left as it was.
peek_token(ts) ==
    IF ts.off >= Len(ts.buf) THEN EndOfInput
    ELSE
    LET rest == Drop(ts.buf, ts.off)
        cur_char == rest[1]
        after == Tail(rest)
    IN  IF cur_char \in Punctuators
        THEN [ok |-> TRUE, kind |-> "Punctuator", len |-> 1,
              ts |-> Advance(ts, 1)]
        ELSE IF cur_char = Ch["."]
        THEN IF StartsWith(after, Str(<<".", ".">>))
             THEN [ok |-> TRUE, kind |-> "Punctuator", len |-> 3,
                   ts |-> Advance(ts, 3)]
             ELSE ErrArg("bare dot is not supported", <<cur_char>>)
        ELSE IF IsNameStart(cur_char)
        THEN LET stops == {i \in 2..Len(rest) : ~IsNameChar(rest[i])}
                 idx == IF stops = {} THEN Len(rest) ELSE Min(stops) - 1
             IN  [ok |-> TRUE, kind |-> "Name", len |-> idx,
                  ts |-> Advance(ts, idx)]
        ELSE IF cur_char = Ch["-"] \/ IsDigit(cur_char)
        THEN LET stops == {i \in 2..Len(rest) : rest[i] \in NumberDelimiters}
                 len == IF stops = {} THEN Len(rest) ELSE Min(stops) - 1
                 dots == {i \in 2..len : rest[i] = Ch["."]}
                 exps == {i \in 2..len : rest[i] \in {Ch["e"], Ch["E"]}}
                 real == IF dots = {} THEN None ELSE Some(Max(dots) - 1)
                 exponent == IF exps = {} THEN None ELSE Some(Max(exps) - 1)
                 v == SubSeq(rest, 1, len)
             IN  IF exponent # None \/ real # None
                 THEN IF ~check_float(v, exponent, real)
                      THEN ErrArg("unsupported float", v)
                      ELSE [ok |-> TRUE, kind |-> "FloatValue", len |-> len,
                            ts |-> Advance(ts, len)]
                 ELSE IF ~check_int(v)
                      THEN ErrArg("unsupported integer", v)
                      ELSE [ok |-> TRUE, kind |-> "IntValue", len |-> len,
                            ts |-> Advance(ts, len)]
        ELSE IF cur_char = Ch["\""]
        THEN IF StartsWith(after, Str(<<"\"", "\"">>))
             THEN LET tail == Drop(after, 2)
                      ends == MatchIndices(tail, TripleQuote, 0)
                      good == {k \in 1..Len(ends) :
                                  ~EndsWith(SubSeq(tail, 1, ends[k]),
                                            Str(<<"\\">>))}
                  IN  IF good = {}
                      THEN Err("unterminated block string value")
                      ELSE LET endidx == ends[Min(good)]
                           IN  [ok |-> TRUE, kind |-> "BlockString",
                                len |-> endidx + 6,
                                ts |-> update_position(ts, endidx + 6)]
             ELSE ScanString(ts, after, 1, 1, cur_char)
        ELSE ErrArg("unexpected character", <<cur_char>>)

\* The loop of skip_whitespace inside a comment: the stream after the
\* comment's characters up to and including its first CR or LF.
RECURSIVE SkipComment(_)
SkipComment(ts) ==
    IF ts.off >= Len(ts.buf) THEN ts
    ELSE LET cur_char == ts.buf[ts.off + 1]
             next == [ts EXCEPT !.off = @ + 1]
         IN  IF cur_char = Ch["\r"] \/ cur_char = Ch["\n"]
             THEN [next EXCEPT !.position.column = 1,
                               !.position.line = @ + 1]
             ELSE SkipComment(next)

\* skip_whitespace, were a comma a token of its own and not ignored.
RECURSIVE skip_whitespace_not_commas(_)
skip_whitespace_not_commas(ts) ==
    IF ts.off >= Len(ts.buf) THEN ts
    ELSE LET cur_char == ts.buf[ts.off + 1]
             next == [ts EXCEPT !.off = @ + 1]
         IN  CASE cur_char = 65279 \/ cur_char = Ch["\r"] ->
                    skip_whitespace_not_commas(next)
               [] cur_char = Ch["\t"] ->
                    skip_whitespace_not_commas(
                        [next EXCEPT !.position.column = @ + 8])
               [] cur_char = Ch["\n"] ->
                    skip_whitespace_not_commas(
                        [next EXCEPT !.position.column = 1,
                                     !.position.line = @ + 1])
               [] cur_char = Ch[" "] ->
                    skip_whitespace_not_commas(
                        [next EXCEPT !.position.column = @ + 1])
               [] cur_char = Ch["#"] ->
                    skip_whitespace_not_commas(SkipComment(next))
               [] OTHER -> ts

\* TokenStream::skip_whitespace
RECURSIVE skip_whitespace(_)
skip_whitespace(ts) ==
    IF ts.off >= Len(ts.buf) THEN ts
    ELSE LET cur_char == ts.buf[ts.off + 1]
             next == [ts EXCEPT !.off = @ + 1]
         IN  CASE cur_char = 65279 \/ cur_char = Ch["\r"] ->
                    skip_whitespace(next)
               [] cur_char = Ch["\t"] ->
                    skip_whitespace(
                        [next EXCEPT !.position.column = @ + 8])
               [] cur_char = Ch["\n"] ->
                    skip_whitespace(
                        [next EXCEPT !.position.column = 1,
                                     !.position.line = @ + 1])
               [] cur_char = Ch[" "] \/ cur_char = Ch[","] ->
                    skip_whitespace(
                        [next EXCEPT !.position.column = @ + 1])
               [] cur_char = Ch["#"] -> skip_whitespace(SkipComment(next))
               [] OTHER -> ts

\* TokenStream::new
NewTokenStream(s) ==
    skip_whitespace([buf |-> s, position |-> [line |-> 1, column |-> 1],
                     off |-> 0, next_state |-> None])

\* uncons from where the token tok is cut and the whitespace behind it
\* skipped, leaving the stream s: the token is remembered in next_state.
uncons_skipped(old_pos, tok, s) ==
    [ok |-> TRUE, tok |-> tok,
     ts |-> [s EXCEPT !.next_state =
                Some([at |-> old_pos, tok |-> tok,
                      off |-> s.off, pos |-> s.position])]]

\* uncons from where peek_token has returned p.
uncons_peeked(old_pos, p) ==
    IF ~p.ok THEN p
    ELSE uncons_skipped(old_pos,
                        [kind |-> p.kind,
                         value |-> SubSeq(p.ts.buf, p.ts.off - p.len + 1,
                                          p.ts.off)],
                        skip_whitespace(p.ts))

\* StreamOnce::uncons: Ok with the token and the stream after it, or Err with
\* the stream as it was.
uncons(ts) ==
    IF ts.next_state # None /\ ts.next_state[1].at = ts.off
    THEN [ok |-> TRUE, tok |-> ts.next_state[1].tok,
          ts |-> [ts EXCEPT !.off = ts.next_state[1].off,
                            !.position = ts.next_state[1].pos]]
    ELSE uncons_peeked(ts.off, peek_token(ts))

\* The stream after an uncons that moves past the character it fails at.
uncons_left_moved(ts, r) == IF r.ok THEN r.ts ELSE Advance(ts, 1)

\* The stream uncons leaves when it has returned r on the stream ts: every
\* Err of peek_token is returned before off or position is assigned, and
\* the `?` of uncons returns it before skip_whitespace is called.
uncons_left(ts, r) == IF r.ok THEN r.ts ELSE ts

\* Resetable::checkpoint
checkpoint(ts) == [position |-> ts.position, off |-> ts.off]

\* reset restoring the offset alone.
reset_offset(ts, c) == [ts EXCEPT !.off = c.off]

\* Resetable::reset
reset(ts, c) == [ts EXCEPT !.position = c.position, !.off = c.off]

-----------------------------------------------------------------------------
(* combine's parsers, and those of src/src/helpers.rs *)

\* combine's ParseResult: CommitOk / PeekOk carry the value, CommitErr /
\* PeekErr the error and the position it was found at; commit tells whether
\* input was consumed, ts is the stream the parser leaves.
POk(v, ts, c) == [ok |-> TRUE, val |-> v, ts |-> ts, commit |-> c]

PErr(msg, pos, ts, c) ==
    [ok |-> FALSE, err |-> msg, pos |-> pos, ts |-> ts, commit |-> c]

\* The result r of a parser that ran after parsers whose commit state is c:
\* once input is consumed, the sequence is committed.
After(c, r) == [r EXCEPT !.commit = @ \/ c]

\* The result r with its value replaced.
MapVal(r, v) == IF r.ok THEN [r EXCEPT !.val = v] ELSE r

\* Whether `or`, `optional` and `many` recover from r: a PeekErr only.
IsPeekErr(r) == ~r.ok /\ ~r.commit

\* The stream a parser left in r, put back to the checkpoint c.
Back(c, r) == reset(r.ts, c)

\* The predicates helpers.rs hands to satisfy: a token of the kind, and of
\* the value when one is asked for.
Matches(c, k, v) == c.kind = k /\ (v = None \/ v = Some(c.value))

\* satisfy from where uncons has returned r.
satisfy_uncons(k, v, ts, r) ==
    IF ~r.ok THEN PErr(r.err, ts.position, ts, FALSE)
    ELSE IF Matches(r.tok, k, v) THEN POk(r.tok, r.ts, TRUE)
    ELSE PErr("unexpected token", ts.position, r.ts, FALSE)

\* combine::satisfy on the token stream, its predicate being Matches for
\* the kind k and the value v.
satisfy(k, v, ts) == satisfy_uncons(k, v, ts, uncons(ts))

\* eof from where uncons has returned r.
eof_uncons(ts, r) ==
    IF ~r.ok /\ r.err = "end of input" THEN POk(<<>>, ts, FALSE)
    ELSE PErr("expected end of input", ts.position,
              reset(IF r.ok THEN r.ts ELSE ts, checkpoint(ts)), FALSE)

\* combine::eof on the token stream.
parse_eof(ts) == eof_uncons(ts, uncons(ts))

\* combine::optional on the stream ts, given the result r of its parser.
parse_optional(ts, r) ==
    IF r.ok THEN MapVal(r, Some(r.val))
    ELSE IF r.commit THEN r
    ELSE POk(None, Back(checkpoint(ts), r), FALSE)

\* A parser is a value, as in combine: a record that names its combinator
\* (t) and holds what it is built from.  A closure handed to map or and_then
\* is named by the text f; Apply and ApplyFallible below give what it does.

\* helpers::kind
kind(k) == [t |-> "satisfy", kind |-> k, value |-> None]

\* helpers::punct
punct(v) == [t |-> "satisfy", kind |-> "Punctuator", value |-> Some(v)]

\* helpers::ident
ident(v) == [t |-> "satisfy", kind |-> "Name", value |-> Some(v)]

\* Parser::map
map(p, f) == [t |-> "map", p |-> p, f |-> f]

\* Parser::and_then
and_then(p, f) == [t |-> "and_then", p |-> p, f |-> f]

\* helpers::name
name == map(kind("Name"), "S::Value::from")

\* combine::position
position_ == [t |-> "position"]

\* combine::eof
eof == [t |-> "eof"]

\* combine::parser, of the grammar function named fn
parser(fn) == [t |-> "parser", fn |-> fn]

\* combine::optional
optional(p) == [t |-> "optional", p |-> p]

\* combine::many
many(p) == [t |-> "many", p |-> p]

\* combine::many1
many1(p) == [t |-> "many1", p |-> p]

\* A chain p1.or(p2).or(p3)... of the parsers ps.
or(ps) == [t |-> "or", ps |-> ps]

\* The tuple parser (p1, p2, ...): the parsers ps in sequence, the value the
\* tuple of theirs.
tuple(ps) == [t |-> "sequence", ps |-> ps, keep |-> 0]

\* Parser::and
and(p, q) == tuple(<<p, q>>)

\* Parser::with: p then q, the value that of q.
with(p, q) == [t |-> "sequence", ps |-> <<p, q>>, keep |-> 2]

\* Parser::skip: p then q, the value that of p.
skip(p, q) == [t |-> "sequence", ps |-> <<p, q>>, keep |-> 1]

\* The Errors of combine's stream::easy a failed result carries, as a set:
\* Error::Unexpected of a token, Error::Expected of an Info.
ErrorsOf(r) == IF "errors" \in DOMAIN r THEN r.errors ELSE {}

WithErrors(r, es) ==
    [ok |-> FALSE, err |-> r.err, pos |-> r.pos, ts |-> r.ts,
     commit |-> r.commit, errors |-> es]

Unexpected(tok) == [unexpected |-> tok]

Expected(info) == [expected |-> info]

\* format!("{:?}", kind)
KindName(k) ==
    CASE k = "Punctuator" ->
            Str(<<"P", "u", "n", "c", "t", "u", "a", "t", "o", "r">>)
      [] k = "Name" -> Str(<<"N", "a", "m", "e">>)
      [] k = "IntValue" -> Str(<<"I", "n", "t", "V", "a", "l", "u", "e">>)
      [] k = "FloatValue" ->
            Str(<<"F", "l", "o", "a", "t", "V", "a", "l", "u", "e">>)
      [] k = "StringValue" ->
            Str(<<"S", "t", "r", "i", "n", "g", "V", "a", "l", "u", "e">>)
      [] k = "BlockString" ->
            Str(<<"B", "l", "o", "c", "k", "S", "t", "r", "i", "n", "g">>)

\* The parser p returns without consuming when what it looks for is not
\* there, so that the parser behind it in a sequence is the one to fail.
RECURSIVE SucceedsEmpty(_)
SucceedsEmpty(p) ==
    CASE p.t \in {"position", "optional", "many"} -> TRUE
      [] p.t \in {"map", "and_then"} -> SucceedsEmpty(p.p)
      [] p.t = "sequence" ->
            \A i \in 1..Len(p.ps) : SucceedsEmpty(p.ps[i])
      [] OTHER -> FALSE

\* add_error, were the add_error of Value that of TokenMatch: the kind of
\* the token is reported and not its value.
RECURSIVE add_error_of_kind(_)
add_error_of_kind(p) ==
    CASE p.t = "satisfy" -> {Expected(KindName(p.kind))}
      [] p.t \in {"map", "and_then", "optional", "many", "many1"} ->
            add_error_of_kind(p.p)
      [] p.t = "or" -> UNION {add_error_of_kind(p.ps[i]) : i \in 1..Len(p.ps)}
      [] p.t = "sequence" ->
            UNION {add_error_of_kind(p.ps[i]) :
                      i \in {k \in 1..Len(p.ps) :
                                \A h \in 1..(k - 1) : SucceedsEmpty(p.ps[h])}}
      [] OTHER -> {}

\* Parser::add_error: the errors p would report had it failed without
\* consuming.  TokenMatch reports its kind, Value its value, NameMatch
\* "Name" (helpers.rs); a parser made of others passes the call on to those
\* that can fail first; combine::parser (FnParser) adds nothing.
RECURSIVE add_error(_)
add_error(p) ==
    CASE p.t = "satisfy" ->
            {Expected(IF p.value # None THEN p.value[1] ELSE KindName(p.kind))}
      [] p.t \in {"map", "and_then", "optional", "many", "many1"} ->
            add_error(p.p)
      [] p.t = "or" -> UNION {add_error(p.ps[i]) : i \in 1..Len(p.ps)}
      [] p.t = "sequence" ->
            UNION {add_error(p.ps[i]) :
                      i \in {k \in 1..Len(p.ps) :
                                \A h \in 1..(k - 1) : SucceedsEmpty(p.ps[h])}}
      [] p.t = "eof" ->
            {Expected(Str(<<"e", "n", "d", " ", "o", "f", " ", "i", "n", "p",
                            "u", "t">>))}
      [] OTHER -> {}

\* What Parser::parse_stream adds to the PeekErr r of the parser p, t being
\* what uncons returns where p began: the token as unexpected, and the
\* errors of add_error.
parse_stream_peeked(p, r, t) ==
    WithErrors(r, ErrorsOf(r)
                  \cup (IF t.ok THEN {Unexpected(t.tok)} ELSE {})
                  \cup add_error(p))

\* Parser::parse_stream from where the parser p, begun on the stream
\* before, has returned r.
parse_stream(p, before, r) ==
    IF IsPeekErr(r) THEN parse_stream_peeked(p, r, uncons(before)) ELSE r

-----------------------------------------------------------------------------
(* Numbers: str::parse::<i64>, str::parse::<f64> and their Display *)

\* An i64 is kept as its sign and its decimal digits without leading
\* zeros, an f64 as its sign, its decimal digits without leading and
\* trailing zeros and the power of ten they are scaled by; the f64 is exact
\* for the literals of up to 15 significant digits the model reads.
RECURSIVE StripLeadingZeros(_)
StripLeadingZeros(ds) ==
    IF Len(ds) > 1 /\ ds[1] = Ch["0"] THEN StripLeadingZeros(Tail(ds)) ELSE ds

\* a <= b for digit strings without leading zeros.
RECURSIVE DigitsLE(_, _)
DigitsLE(a, b) ==
    IF Len(a) # Len(b) THEN Len(a) < Len(b)
    ELSE IF a = <<>> THEN TRUE
    ELSE IF a[1] # b[1] THEN a[1] < b[1]
    ELSE DigitsLE(Tail(a), Tail(b))

\* The digits of i64::MAX, 9223372036854775807.
I64MaxDigits ==
    Str(<<"9", "2", "2", "3", "3", "7", "2", "0", "3", "6", "8", "5", "4",
          "7", "7", "5", "8", "0", "7">>)

\* The digits of -i64::MIN, 9223372036854775808.
I64MinDigits == SubSeq(I64MaxDigits, 1, 18) \o Str(<<"8">>)

\* from_str saturating: a literal out of range gives the nearest i64.
parse_i64_saturating(s) ==
    LET neg == s[1] = Ch["-"]
        ds == StripLeadingZeros(IF neg THEN Tail(s) ELSE s)
        most == IF neg THEN I64MinDigits ELSE I64MaxDigits
    IN  Ok([neg |-> neg /\ ds # Str(<<"0">>),
            digits |-> IF DigitsLE(ds, most) THEN ds ELSE most])

\* <i64 as FromStr>::from_str on an IntValue token: the errors are those of
\* IntErrorKind::PosOverflow and IntErrorKind::NegOverflow.
parse_i64(s) ==
    LET neg == s[1] = Ch["-"]
        ds == StripLeadingZeros(IF neg THEN Tail(s) ELSE s)
    IN  IF DigitsLE(ds, IF neg THEN I64MinDigits ELSE I64MaxDigits)
        THEN Ok([neg |-> neg /\ ds # Str(<<"0">>), digits |-> ds])
        ELSE IF neg THEN Err("number too small to fit in target type")
        ELSE Err("number too large to fit in target type")

\* <i64 as Display>::fmt
display_i64(n) == (IF n.neg THEN Str(<<"-">>) ELSE <<>>) \o n.digits

\* The number a string of digits reads as.
RECURSIVE DigitsValue(_)
DigitsValue(ds) ==
    IF ds = <<>> THEN 0
    ELSE 10 * DigitsValue(SubSeq(ds, 1, Len(ds) - 1)) + (ds[Len(ds)] - Ch["0"])

RECURSIVE StripTrailingZeros(_)
StripTrailingZeros(ds) ==
    IF Len(ds) > 1 /\ ds[Len(ds)] = Ch["0"]
    THEN StripTrailingZeros(SubSeq(ds, 1, Len(ds) - 1))
    ELSE ds

\* <f64 as FromStr>::from_str on a FloatValue token.
parse_f64(s) ==
    LET neg == s[1] = Ch["-"]
        body == IF neg THEN Tail(s) ELSE s
        es == {i \in 1..Len(body) : body[i] \in {Ch["e"], Ch["E"]}}
        e == IF es = {} THEN Len(body) + 1 ELSE Min(es)
        mant == SubSeq(body, 1, e - 1)
        dot == IndexOf(mant, Ch["."])
        int == IF dot = 0 THEN mant ELSE SubSeq(mant, 1, dot - 1)
        frac == IF dot = 0 THEN <<>> ELSE Drop(mant, dot)
        exp == IF es = {} THEN 0
               ELSE (IF body[e + 1] = Ch["-"] THEN -1 ELSE 1)
                        * DigitsValue(Drop(body, e + 1))
        all == StripLeadingZeros(int \o frac)
        ds == StripTrailingZeros(all)
    IN  [neg |-> neg, digits |-> ds,
         exp10 |-> IF ds = Str(<<"0">>) THEN 0
                   ELSE exp - Len(frac) + (Len(all) - Len(ds))]

\* <f64 as Display>::fmt: the digits in positional notation, without
\* exponent, and without a fraction when the value is a whole number.
display_f64(x) ==
    LET sign == IF x.neg THEN Str(<<"-">>) ELSE <<>>
        n == Len(x.digits)
    IN  IF x.exp10 >= 0
        THEN sign \o x.digits \o Repeat(Ch["0"], x.exp10)
        ELSE IF n > -x.exp10
        THEN sign \o SubSeq(x.digits, 1, n + x.exp10) \o Str(<<".">>)
                  \o Drop(x.digits, n + x.exp10)
        ELSE sign \o Str(<<"0", ".">>) \o Repeat(Ch["0"], -x.exp10 - n)
                  \o x.digits

-----------------------------------------------------------------------------
(* The grammar shared by queries and schemas (src/src/common.rs) *)

\* The AST.  A node is a record, an enum variant a record with a tag:
\*   Value              [tag, ...] (one payload field per variant)
\*   Type               [tag |-> "NamedType", name] or [tag, of]
\*   Directive          [position, name, arguments]
\*   an argument, an object field   <<name, value>>

\* a < b in the order of str: by code point, a prefix first.
RECURSIVE StrLess(_, _)
StrLess(a, b) ==
    IF b = <<>> THEN FALSE
    ELSE IF a = <<>> THEN TRUE
    ELSE IF a[1] # b[1] THEN a[1] < b[1]
    ELSE StrLess(Tail(a), Tail(b))

\* An insert that leaves the entry of a key the map holds as it is.
RECURSIVE BTreeInsertNew(_, _)
BTreeInsertNew(m, entry) ==
    IF m = <<>> THEN <<entry>>
    ELSE IF m[1][1] = entry[1] THEN m
    ELSE IF StrLess(entry[1], m[1][1]) THEN <<entry>> \o m
    ELSE <<m[1]>> \o BTreeInsertNew(Tail(m), entry)

\* BTreeMap::insert on a map kept as its entries in key order.
RECURSIVE BTreeInsert(_, _)
BTreeInsert(m, entry) ==
    IF m = <<>> THEN <<entry>>
    ELSE IF m[1][1] = entry[1] THEN <<entry>> \o Tail(m)
    ELSE IF StrLess(entry[1], m[1][1]) THEN <<entry>> \o m
    ELSE <<m[1]>> \o BTreeInsert(Tail(m), entry)

\* The BTreeMap `many` collects a sequence of entries into.
RECURSIVE BTreeCollect(_, _)
BTreeCollect(entries, m) ==
    IF entries = <<>> THEN m
    ELSE BTreeCollect(Tail(entries), BTreeInsert(m, Head(entries)))

KwTrue == Str(<<"t", "r", "u", "e">>)
KwFalse == Str(<<"f", "a", "l", "s", "e">>)
KwNull == Str(<<"n", "u", "l", "l">>)

\* directives
directives ==
    many(map(and(and(skip(position_, punct(Str(<<"@">>))), name),
                 parser("arguments")),
             "Directive"))

\* arguments
arguments ==
    map(optional(skip(with(punct(Str(<<"(">>)),
                           many1(and(skip(name, punct(Str(<<":">>))),
                                     parser("value")))),
                      punct(Str(<<")">>)))),
        "unwrap_or_default")

\* int_value
int_value ==
    map(map(and_then(kind("IntValue"), "parse::<i64>"), "Number"),
        "Value::Int")

\* float_value
float_value == map(and_then(kind("FloatValue"), "parse::<f64>"), "Value::Float")

\* string_value
string_value ==
    map(and_then(kind("StringValue"), "unquote_string"), "Value::String")

\* block_string_value
block_string_value ==
    map(and_then(kind("BlockString"), "unquote_block_string"),
        "Value::String")

\* plain_value
plain_value ==
    or(<<map(ident(KwTrue), "Value::Boolean(true)"),
         map(ident(KwFalse), "Value::Boolean(false)"),
         map(ident(KwNull), "Value::Null"),
         map(name, "Value::Enum"),
         parser("int_value"),
         parser("float_value"),
         parser("string_value"),
         parser("block_string_value")>>)

\* value
value_ ==
    or(<<parser("plain_value"),
         map(with(punct(Str(<<"$">>)), name), "Value::Variable"),
         map(skip(with(punct(Str(<<"[">>)), many(parser("value"))),
                  punct(Str(<<"]">>))),
             "Value::List"),
         map(skip(with(punct(Str(<<"{">>)),
                       many(and(skip(name, punct(Str(<<":">>))),
                                parser("value")))),
                  punct(Str(<<"}">>))),
             "Value::Object")>>)

\* default_value with the variable of value among its alternatives.
default_value_or_variable ==
    or(<<parser("plain_value"),
         map(with(punct(Str(<<"$">>)), name), "Value::Variable"),
         map(skip(with(punct(Str(<<"[">>)), many(parser("default_value"))),
                  punct(Str(<<"]">>))),
             "Value::List"),
         map(skip(with(punct(Str(<<"{">>)),
                       many(and(skip(name, punct(Str(<<":">>))),
                                parser("default_value")))),
                  punct(Str(<<"}">>))),
             "Value::Object")>>)

\* default_value
default_value ==
    or(<<parser("plain_value"),
         map(skip(with(punct(Str(<<"[">>)), many(parser("default_value"))),
                  punct(Str(<<"]">>))),
             "Value::List"),
         map(skip(with(punct(Str(<<"{">>)),
                       many(and(skip(name, punct(Str(<<":">>))),
                                parser("default_value")))),
                  punct(Str(<<"}">>))),
             "Value::Object")>>)

\* parse_type
parse_type ==
    map(and(or(<<map(name, "Type::NamedType"),
                 map(map(skip(with(punct(Str(<<"[">>)), parser("parse_type")),
                              punct(Str(<<"]">>))),
                         "Box::new"),
                     "Type::ListType")>>),
            map(optional(punct(Str(<<"!">>))), "is_some")),
        "Type::NonNullType if strict")

-----------------------------------------------------------------------------
(* The query grammar (src/src/query/grammar.rs) *)

\*   SelectionSet        [span |-> <<start, end>>, items]
\*   Selection           [tag |-> "Field", position, alias, name, arguments,
\*                        directives, selection_set],
\*                       [tag |-> "InlineFragment", position, type_condition,
\*                        directives, selection_set] or
\*                       [tag |-> "FragmentSpread", position, fragment_name,
\*                        directives]
\*   VariableDefinition  [position, name, var_type, default_value]
\*   Definition          [tag |-> "SelectionSet", selection_set],
\*                       [tag |-> "Query" (or "Mutation", "Subscription"),
\*                        position, name, variable_definitions, directives,
\*                        selection_set] or
\*                       [tag |-> "Fragment", position, name, type_condition,
\*                        directives, selection_set]
\*   Document            [definitions]
KwOn == Str(<<"o", "n">>)
KwQuery == Str(<<"q", "u", "e", "r", "y">>)
KwMutation == Str(<<"m", "u", "t", "a", "t", "i", "o", "n">>)
KwSubscription ==
    Str(<<"s", "u", "b", "s", "c", "r", "i", "p", "t", "i", "o", "n">>)
KwFragment == Str(<<"f", "r", "a", "g", "m", "e", "n", "t">>)

\* field
field ==
    map(tuple(<<position_,
                name,
                optional(with(punct(Str(<<":">>)), name)),
                parser("arguments"),
                parser("directives"),
                optional(parser("selection_set"))>>),
        "Field")

\* selection
selection ==
    or(<<map(parser("field"), "Selection::Field"),
         with(punct(Str(<<".", ".", ".">>)),
              or(<<map(map(tuple(<<position_,
                                   optional(map(with(ident(KwOn), name),
                                                "TypeCondition::On")),
                                   parser("directives"),
                                   parser("selection_set")>>),
                           "InlineFragment"),
                       "Selection::InlineFragment"),
                   map(map(tuple(<<position_, name, parser("directives")>>),
                           "FragmentSpread"),
                       "Selection::FragmentSpread")>>))>>)

\* selection_set with many in the place of many1.
selection_set_many ==
    map(tuple(<<skip(position_, punct(Str(<<"{">>))),
                many(parser("selection")),
                skip(position_, punct(Str(<<"}">>)))>>),
        "SelectionSet")

\* selection_set
selection_set ==
    map(tuple(<<skip(position_, punct(Str(<<"{">>))),
                many1(parser("selection")),
                skip(position_, punct(Str(<<"}">>)))>>),
        "SelectionSet")

\* query
query ==
    map(and(skip(position_, ident(KwQuery)), parser("operation_common")),
        "Query")

\* operation_common
operation_common ==
    map(and(and(and(optional(name),
                    map(optional(
                            skip(with(punct(Str(<<"(">>)),
                                      many1(map(tuple(<<
                                          position_,
                                          skip(with(punct(Str(<<"$">>)), name),
                                               punct(Str(<<":">>))),
                                          parser("parse_type"),
                                          optional(with(punct(Str(<<"=">>)),
                                                        parser("default_value")))
                                          >>),
                                          "VariableDefinition"))),
                                 punct(Str(<<")">>)))),
                        "unwrap_or_else(Vec::new)")),
                parser("directives")),
            parser("selection_set")),
        "OperationCommon")

\* mutation
mutation ==
    map(and(skip(position_, ident(KwMutation)), parser("operation_common")),
        "Mutation")

\* subscription
subscription ==
    map(and(skip(position_, ident(KwSubscription)),
            parser("operation_common")),
        "Subscription")

\* operation_definition
operation_definition ==
    or(<<map(parser("selection_set"), "OperationDefinition::SelectionSet"),
         map(parser("query"), "OperationDefinition::Query"),
         map(parser("mutation"), "OperationDefinition::Mutation"),
         map(parser("subscription"), "OperationDefinition::Subscription")>>)

\* fragment_definition
fragment_definition ==
    map(tuple(<<skip(position_, ident(KwFragment)),
                name,
                map(with(ident(KwOn), name), "TypeCondition::On"),
                parser("directives"),
                parser("selection_set")>>),
        "FragmentDefinition")

\* definition
definition ==
    or(<<map(parser("operation_definition"), "Definition::Operation"),
         map(parser("fragment_definition"), "Definition::Fragment")>>)

\* many1(parser(definition)).map(Document) with the eof left out.
parse_query_without_eof == map(many1(parser("definition")), "Document")

\* The parser parse_query runs on the token stream of its argument.
parse_query == skip(map(many1(parser("definition")), "Document"), eof)

\* The parser consume_definition runs on the token stream of its argument.
consume_definition == parser("definition")

\* The grammar function parser(fn) hands the stream to; the entry points
\* are named like the functions.
Grammar(fn) ==
    CASE fn = "directives" -> directives
      [] fn = "arguments" -> arguments
      [] fn = "int_value" -> int_value
      [] fn = "float_value" -> float_value
      [] fn = "string_value" -> string_value
      [] fn = "block_string_value" -> block_string_value
      [] fn = "plain_value" -> plain_value
      [] fn = "value" -> value_
      [] fn = "default_value" -> default_value
      [] fn = "parse_type" -> parse_type
      [] fn = "field" -> field
      [] fn = "selection" -> selection
      [] fn = "selection_set" -> selection_set
      [] fn = "query" -> query
      [] fn = "operation_common" -> operation_common
      [] fn = "mutation" -> mutation
      [] fn = "subscription" -> subscription
      [] fn = "operation_definition" -> operation_definition
      [] fn = "fragment_definition" -> fragment_definition
      [] fn = "definition" -> definition
      [] fn = "parse_query" -> parse_query
      [] fn = "consume_definition" -> consume_definition

\* The closure of field with the first name always taken for the name of
\* the field and the second for its alias.
FieldOfFirstName(v) ==
    [tag |-> "Field",
     position |-> v[1],
     name |-> v[2],
     alias |-> v[3],
     arguments |-> v[4],
     directives |-> v[5],
     selection_set |->
         IF v[6] # None THEN v[6][1]
         ELSE [span |-> <<v[1], v[1]>>, items |-> <<>>]]

\* The closure of field: the Field from the value v of the tuple.
FieldOf(v) ==
    [tag |-> "Field",
     position |-> v[1],
     name |-> IF v[3] # None THEN v[3][1] ELSE v[2],
     alias |-> IF v[3] # None THEN Some(v[2]) ELSE None,
     arguments |-> v[4],
     directives |-> v[5],
     selection_set |->
         IF v[6] # None THEN v[6][1]
         ELSE [span |-> <<v[1], v[1]>>, items |-> <<>>]]

\* Query, Mutation and Subscription from the value v of
\* position .and(operation_common).
OperationOf(tag, v) ==
    [tag |-> tag, position |-> v[1], name |-> v[2][1],
     variable_definitions |-> v[2][2], directives |-> v[2][3],
     selection_set |-> v[2][4]]

\* The closure named f, handed to map, applied to the value v.  A variant
\* that only wraps a record which carries its own tag leaves it as it is.
Apply(f, v) ==
    CASE f = "S::Value::from" -> v.value
      [] f \in {"Number", "Box::new", "TypeCondition::On", "Selection::Field",
                "Selection::InlineFragment", "Selection::FragmentSpread",
                "OperationDefinition::Query", "OperationDefinition::Mutation",
                "OperationDefinition::Subscription", "Definition::Operation",
                "Definition::Fragment"} -> v
      [] f = "Directive" ->
            [position |-> v[1][1], name |-> v[1][2], arguments |-> v[2]]
      [] f \in {"unwrap_or_default", "unwrap_or_else(Vec::new)"} ->
            IF v = None THEN <<>> ELSE v[1]
      [] f = "Value::Int" -> [tag |-> "Int", int |-> v]
      [] f = "Value::Float" -> [tag |-> "Float", float |-> v]
      [] f = "Value::String" -> [tag |-> "String", string |-> v]
      [] f = "Value::Boolean(true)" -> [tag |-> "Boolean", boolean |-> TRUE]
      [] f = "Value::Boolean(false)" -> [tag |-> "Boolean", boolean |-> FALSE]
      [] f = "Value::Null" -> [tag |-> "Null"]
      [] f = "Value::Enum" -> [tag |-> "Enum", name |-> v]
      [] f = "Value::Variable" -> [tag |-> "Variable", name |-> v]
      [] f = "Value::List" -> [tag |-> "List", items |-> v]
      [] f = "Value::Object" ->
            [tag |-> "Object", fields |-> BTreeCollect(v, <<>>)]
      [] f = "Type::NamedType" -> [tag |-> "NamedType", name |-> v]
      [] f = "Type::ListType" -> [tag |-> "ListType", of |-> v]
      [] f = "is_some" -> v # None
      [] f = "Type::NonNullType if strict" ->
            IF v[2] THEN [tag |-> "NonNullType", of |-> v[1]] ELSE v[1]
      [] f = "Field" -> FieldOf(v)
      [] f = "InlineFragment" ->
            [tag |-> "InlineFragment", position |-> v[1],
             type_condition |-> v[2], directives |-> v[3],
             selection_set |-> v[4]]
      [] f = "FragmentSpread" ->
            [tag |-> "FragmentSpread", position |-> v[1],
             fragment_name |-> v[2], directives |-> v[3]]
      [] f = "SelectionSet" -> [span |-> <<v[1], v[3]>>, items |-> v[2]]
      [] f = "VariableDefinition" ->
            [position |-> v[1], name |-> v[2], var_type |-> v[3],
             default_value |-> v[4]]
      [] f = "OperationCommon" -> <<v[1][1][1], v[1][1][2], v[1][2], v[2]>>
      [] f = "Query" -> OperationOf("Query", v)
      [] f = "Mutation" -> OperationOf("Mutation", v)
      [] f = "Subscription" -> OperationOf("Subscription", v)
      [] f = "OperationDefinition::SelectionSet" ->
            [tag |-> "SelectionSet", selection_set |-> v]
      [] f = "FragmentDefinition" ->
            [tag |-> "Fragment", position |-> v[1], name |-> v[2],
             type_condition |-> v[3], directives |-> v[4],
             selection_set |-> v[5]]
      [] f = "Document" -> [definitions |-> v]

\* The closure named f, handed to and_then, applied to the token tok.
ApplyFallible(f, tok) ==
    CASE f = "parse::<i64>" -> parse_i64(tok.value)
      [] f = "parse::<f64>" -> Ok(parse_f64(tok.value))
      [] f = "unquote_string" -> unquote_string(tok.value)
      [] f = "unquote_block_string" -> unquote_block_string(tok.value)

\* and_then on the stream ts from where its parser has returned r and its
\* closure v.
and_then_result(ts, r, v) ==
    IF v.ok THEN MapVal(r, v.val)
    ELSE PErr(v.err, ts.position, r.ts, r.commit)

\* The Result of parse_query and consume_definition from the ParseResult r:
\* Ok with the value and (for the properties to read) the token stream as
\* the parser left it, or Err with the error.
into_result(r) ==
    IF r.ok THEN [ok |-> TRUE, val |-> r.val, tokens |-> r.ts]
    ELSE [ok |-> FALSE, err |-> r.err, pos |-> r.pos, errors |-> ErrorsOf(r)]

\* TokenStream::offset, which consume_definition calls and tokenizer.rs
\* does not define: the offset of the cursor into buf.
offset(ts) == ts.off

\* The Ok of consume_definition from the Ok r of its parser: the Definition
\* and the remainder.
consumed(s, r) ==
    IF r.ok THEN [ok |-> TRUE, val |-> r.val, rest |-> Drop(s, offset(r.tokens))]
    ELSE r

\* The parser that is the child number i of the parser p: `or` and the
\* tuple hold several parsers, the other combinators one.
ChildOf(p, i) == IF p.t \in {"or", "sequence"} THEN p.ps[i] ELSE p.p

\* The parser reached from the parser p by the child numbers of path.
RECURSIVE NodeAt(_, _)
NodeAt(p, path) ==
    IF path = <<>> THEN p
    ELSE NodeAt(ChildOf(p, Head(path)), Tail(path))

\* What a running parse_stream holds: the parser, as the grammar function
\* fn it is written in and its path there; the child it runs (i), the
\* values parsed so far (vals), whether input was consumed (commit), and
\* the checkpoint it resets the stream to (at).
Frame(fn, path, ts) ==
    [fn |-> fn, path |-> path, i |-> 1, vals |-> <<>>, commit |-> FALSE,
     at |-> checkpoint(ts)]

-----------------------------------------------------------------------------
(* The query formatter (src/src/query_format.rs) *)

\* Every display takes the Formatter and returns it with the node written;
\* a Formatter that has panicked is returned as it is.
RECURSIVE display_value(_, _)
RECURSIVE display_values(_, _)
RECURSIVE display_fields(_, _, _)

\* The items of a Value::List after the first, each behind ", ".
display_values(f, items) ==
    IF items = <<>> \/ f.panic THEN f
    ELSE display_values(display_value(write(f, Str(<<",", " ">>)),
                                      Head(items)),
                        Tail(items))

\* The entries of a Value::Object, each but the first behind ", ".
display_fields(f, fields, first) ==
    IF fields = <<>> \/ f.panic THEN f
    ELSE display_fields(
             display_value(
                 write(write(IF first THEN f ELSE write(f, Str(<<",", " ">>)),
                             Head(fields)[1]),
                       Str(<<":", " ">>)),
                 Head(fields)[2]),
             Tail(fields), FALSE)

\* impl Displayable for Value
display_value(f, v) ==
    CASE v.tag = "Variable" -> write(write(f, Str(<<"$">>)), v.name)
      [] v.tag = "Int" -> write(f, display_i64(v.int))
      [] v.tag = "Float" -> write(f, display_f64(v.float))
      [] v.tag = "String" -> write_quoted(f, v.string)
      [] v.tag = "Boolean" -> write(f, IF v.boolean THEN KwTrue ELSE KwFalse)
      [] v.tag = "Null" -> write(f, KwNull)
      [] v.tag = "Enum" -> write(f, v.name)
      [] v.tag = "List" ->
            LET f1 == write(f, Str(<<"[">>))
                f2 == IF Len(v.items) > 0
                      THEN display_values(display_value(f1, v.items[1]),
                                          Tail(v.items))
                      ELSE f1
            IN  write(f2, Str(<<"]">>))
      [] v.tag = "Object" ->
            write(display_fields(write(f, Str(<<"{">>)), v.fields, TRUE),
                  Str(<<"}">>))

\* name ": " value, an argument as format_arguments writes it.
display_argument(f, arg) ==
    display_value(write(write(f, arg[1]), Str(<<":", " ">>)), arg[2])

\* The arguments after the first, each behind ", ".
RECURSIVE display_more_arguments(_, _)
display_more_arguments(f, args) ==
    IF args = <<>> \/ f.panic THEN f
    ELSE display_more_arguments(
             display_argument(write(f, Str(<<",", " ">>)), Head(args)),
             Tail(args))

\* format_arguments
format_arguments(args, f) ==
    IF Len(args) > 0
    THEN write(display_more_arguments(
                   display_argument(write(f, Str(<<"(">>)), args[1]),
                   Tail(args)),
               Str(<<")">>))
    ELSE f

\* impl Displayable for Directive
display_directive(f, dir) ==
    format_arguments(dir.arguments, write(write(f, Str(<<"@">>)), dir.name))

\* format_directives
RECURSIVE format_directives(_, _)
format_directives(dirs, f) ==
    IF dirs = <<>> \/ f.panic THEN f
    ELSE format_directives(Tail(dirs),
                           display_directive(write(f, Str(<<" ">>)),
                                             Head(dirs)))

\* impl Displayable for TypeCondition
display_type_condition(f, cond) ==
    write(write(f, KwOn \o Str(<<" ">>)), cond)

\* impl Displayable for VariableType
RECURSIVE display_type(_, _)
display_type(f, typ) ==
    CASE typ.tag = "NamedType" -> write(f, typ.name)
      [] typ.tag = "ListType" ->
            write(display_type(write(f, Str(<<"[">>)), typ.of), Str(<<"]">>))
      [] typ.tag = "NonNullType" ->
            write(display_type(f, typ.of), Str(<<"!">>))

\* impl Displayable for VariableDefinition
display_variable_definition(f, var) ==
    LET f1 == write(write(write(f, Str(<<"$">>)), var.name),
                    Str(<<":", " ">>))
        f2 == display_type(f1, var.var_type)
    IN  IF var.default_value # None
        THEN display_value(write(f2, Str(<<" ", "=", " ">>)),
                           var.default_value[1])
        ELSE f2

\* The variable definitions after the first; sep is what Query writes
\* before each (", "), and Mutation and Subscription do not write.
RECURSIVE display_more_variables(_, _, _)
display_more_variables(f, vars_, sep) ==
    IF vars_ = <<>> \/ f.panic THEN f
    ELSE display_more_variables(
             display_variable_definition(write(f, sep), Head(vars_)),
             Tail(vars_), sep)

RECURSIVE display_selection(_, _)
RECURSIVE display_items(_, _)

\* for item in items { item.display(f) }
display_items(f, items) ==
    IF items = <<>> \/ f.panic THEN f
    ELSE display_items(display_selection(f, Head(items)), Tail(items))

\* f.start_block(); the items; f.end_block()
display_block(f, items) == end_block(display_items(start_block(f), items))

\* impl Displayable for Field
display_field(f, fld) ==
    LET f1 == indent(f)
        f2 == IF fld.alias # None
              THEN write(write(f1, fld.alias[1]), Str(<<":", " ">>))
              ELSE f1
        f3 == format_directives(fld.directives,
                  format_arguments(fld.arguments, write(f2, fld.name)))
    IN  IF Len(fld.selection_set.items) > 0
        THEN display_block(write(f3, Str(<<" ">>)), fld.selection_set.items)
        ELSE endline(f3)

\* impl Displayable for InlineFragment
display_inline_fragment(f, frag) ==
    LET f1 == write(indent(f), Str(<<".", ".", ".">>))
        f2 == IF frag.type_condition # None
              THEN display_type_condition(write(f1, Str(<<" ">>)),
                                          frag.type_condition[1])
              ELSE f1
        f3 == write(format_directives(frag.directives, f2), Str(<<" ">>))
    IN  display_block(f3, frag.selection_set.items)

\* impl Displayable for FragmentSpread
display_fragment_spread(f, frag) ==
    endline(format_directives(
                frag.directives,
                write(write(indent(f), Str(<<".", ".", ".">>)),
                      frag.fragment_name)))

\* impl Displayable for Selection
display_selection(f, item) ==
    CASE item.tag = "Field" -> display_field(f, item)
      [] item.tag = "InlineFragment" -> display_inline_fragment(f, item)
      [] item.tag = "FragmentSpread" -> display_fragment_spread(f, item)

\* impl Displayable for SelectionSet
display_selection_set(f, set) == display_block(indent(margin(f)), set.items)

\* impl Displayable for Query, for Mutation and for Subscription: keyword
\* is what each writes first, sep what it writes between two variable
\* definitions.
display_operation(f, q, keyword, sep) ==
    LET f1 == write(indent(margin(f)), keyword)
        f2 == write(write(f1, Str(<<" ">>)), q.name[1])
        f3 == IF Len(q.variable_definitions) > 0
              THEN write(display_more_variables(
                             display_variable_definition(
                                 write(f2, Str(<<"(">>)),
                                 q.variable_definitions[1]),
                             Tail(q.variable_definitions), sep),
                         Str(<<")">>))
              ELSE f2
        f4 == IF q.name # None THEN f3 ELSE f1
        f5 == write(format_directives(q.directives, f4), Str(<<" ">>))
    IN  display_block(f5, q.selection_set.items)

\* impl Displayable for FragmentDefinition
display_fragment_definition(f, frag) ==
    LET f1 == write(write(write(indent(margin(f)),
                                KwFragment \o Str(<<" ">>)),
                          frag.name),
                    Str(<<" ">>))
        f2 == display_type_condition(f1, frag.type_condition)
        f3 == write(format_directives(frag.directives, f2), Str(<<" ">>))
    IN  display_block(f3, frag.selection_set.items)

\* impl Displayable for Definition and for OperationDefinition
display_definition(f, def) ==
    CASE def.tag = "SelectionSet" ->
            display_selection_set(f, def.selection_set)
      [] def.tag = "Query" ->
            display_operation(f, def, KwQuery, Str(<<",", " ">>))
      [] def.tag = "Mutation" -> display_operation(f, def, KwMutation, <<>>)
      [] def.tag = "Subscription" ->
            display_operation(f, def, KwSubscription, <<>>)
      [] def.tag = "Fragment" -> display_fragment_definition(f, def)

\* impl Displayable for Document
RECURSIVE display_document(_, _)
display_document(f, definitions) ==
    IF definitions = <<>> \/ f.panic THEN f
    ELSE display_document(display_definition(f, Head(definitions)),
                          Tail(definitions))

\* Document::format
format(doc, style) == display_document(NewFormatter(style), doc.definitions).buf

-----------------------------------------------------------------------------
(* Values the variables of the other entry points rest at *)

CodecIdle ==
    /\ value = <<>>
    /\ fmt = NewFormatter(DefaultStyle)
    /\ token = <<>>
    /\ unq = NotRun

StreamIdle ==
    /\ buf = <<>>
    /\ off = 0
    /\ position = [line |-> 1, column |-> 1]
    /\ next_state = None
    /\ last = NotRun
    /\ saved = None

ParserIdle ==
    /\ source = <<>>
    /\ parsed = NotRun
    /\ text = <<>>
    /\ reparsed = NotRun
    /\ text2 = <<>>
    /\ stack = <<>>
    /\ ret = None

MinifyIdle ==
    /\ bits = <<>>
    /\ prev_was_punctuator = FALSE
    /\ minified = NotRun

\* The variables of the visitors, the transformer and the replayed
\* formatter at rest.
WalkIdle ==
    /\ document = [definitions |-> <<>>]
    /\ doc_iter = <<>>
    /\ field_iter = None
    /\ visited = <<>>
    /\ transformer = "none"
    /\ transformed = NotRun
    /\ replay = <<>>

-----------------------------------------------------------------------------
(* The literal codec: write_quoted, then the unquote the token kind selects *)

\* The longest string handed to write_quoted.
MaxStrLen == 3

\* The most lines of a block-string body, and the deepest formatter nesting.
MaxBlockLines == 4
MaxDepth == 1

\* Characters of the strings handed to write_quoted: a letter, a space, a
\* line feed, a quote, a backslash, the controls U+0008 and U+001F, and
\* U+10000 (above U+FFFF).
QuoteAlphabet ==
    {Ch["a"], Ch[" "], Ch["\n"], Ch["\""], Ch["\\"], 8, 31, 65536}

\* The indent widths a Style is given.
IndentWidths == {0, 2, 4}

\* The lines block-string bodies are made of.
BlockLines ==
    {Str(<<>>), Str(<<" ">>), Str(<<"a">>), Str(<<" ", "a">>),
     Str(<<" ", " ", "a">>), Str(<<" ", " ", " ">>)}

\* All sequences of at most n elements of S.
RECURSIVE SeqsUpTo(_, _)
SeqsUpTo(S, n) ==
    IF n = 0 THEN {<<>>}
    ELSE LET shorter == SeqsUpTo(S, n - 1)
         IN  shorter \cup {Append(s, x) : s \in shorter, x \in S}

\* The body of the test block_string_leading_and_trailing_empty_lines
\* and its expected value.
ExampleBody ==
    Str(<<" ", " ", " ", "\n", "\n",
          " ", " ", "H", "e", "l", "l", "o", ",", "\n",
          " ", " ", " ", " ", "W", "o", "r", "l", "d", "!", "\n", "\n",
          " ", " ", "Y", "o", "u", "r", "s", ",", "\n",
          " ", " ", " ", " ", "G", "r", "a", "p", "h", "Q", "L", ".", "\n",
          "\n", "\n">>)
ExampleValue ==
    Str(<<"H", "e", "l", "l", "o", ",", "\n",
          " ", " ", "W", "o", "r", "l", "d", "!", "\n", "\n",
          "Y", "o", "u", "r", "s", ",", "\n",
          " ", " ", "G", "r", "a", "p", "h", "Q", "L", ".">>)

\* The bodies of the tests block_string_indent, block_string_escaping and
\* block_string_empty.
TestBodies ==
    {ExampleBody,
     Str(<<"H", "e", "l", "l", "o", " ", " ", " ", "\n", "\n",
           " ", " ", "H", "e", "l", "l", "o", ",", "\n",
           " ", " ", " ", " ", "W", "o", "r", "l", "d", "!", "\n">>),
     Str(<<"\\", "\"", "\"", "\"">>),
     Str(<<" ", " ", " ", "\n", "\t", "\n">>)}

BlockBodies ==
    {Join(ls, <<Ch["\n"]>>) : ls \in SeqsUpTo(BlockLines, MaxBlockLines)}
        \cup TestBodies

triple_quote(body) == TripleQuote \o body \o TripleQuote

\* The most pieces (a character or a two-character escape) of a string
\* body unquote_string is given, and the most characters behind a \u.
MaxEscapes == 2
MaxHexLen == 4

\* The characters put behind a backslash, and the pieces made with them.
EscapeChars ==
    {Ch["\""], Ch["\\"], Ch["/"], Ch["b"], Ch["f"], Ch["n"], Ch["r"],
     Ch["t"], Ch["x"], Ch["a"]}

EscapePieces ==
    {<<Ch["a"]>>, <<Ch[" "]>>} \cup {<<Ch["\\"], e>> : e \in EscapeChars}

\* The characters put behind a \u: digits of both cases, the signs, and a
\* letter that is no digit.
HexAlphabet ==
    {Ch["0"], Ch["4"], Ch["D"], Ch["F"], Ch["f"], Ch["+"], Ch["-"], Ch["g"]}

\* The bodies of the test unquote_unicode_string.
UnicodeExamples ==
    {Str(<<"\\", "u", "0", "0", "0", "9">>),
     Str(<<"\\", "u", "0", "0", "0", "A">>),
     Str(<<"\\", "u", "0", "0", "0", "D">>),
     Str(<<"\\", "u", "0", "0", "2", "0">>),
     Str(<<"\\", "u", "F", "F", "F", "F">>),
     Str(<<"\\", "u", "0", "0", "0", "9", " ", "h", "e", "l", "l", "o", " ",
           "\\", "u", "0", "0", "0", "A", " ", "t", "h", "e", "r", "e">>)}

StringBodies ==
    {Concat(ps) : ps \in SeqsUpTo(EscapePieces, MaxEscapes)}
    \cup {Str(<<"\\", "u">>) \o h : h \in StringsUpTo(HexAlphabet, MaxHexLen)}
    \cup UnicodeExamples

quote(body) == <<Ch["\""]>> \o body \o <<Ch["\""]>>

\* The tokenizer scans t as one StringValue token.
IsStringValue(t) ==
    LET p == peek_token([buf |-> t, position |-> [line |-> 1, column |-> 1],
                         off |-> 0, next_state |-> None])
    IN  p.ok /\ p.kind = "StringValue" /\ p.len = Len(t)

StringTokens == {t \in {quote(b) : b \in StringBodies} : IsStringValue(t)}

InitCodec ==
    /\ StreamIdle
    /\ ParserIdle
    /\ MinifyIdle
    /\ WalkIdle
    /\ unq = NotRun
    /\ \/ /\ op = "write_quoted"
          /\ pc = "start"
          /\ value \in StringsUpTo(QuoteAlphabet, MaxStrLen)
          /\ \E w \in IndentWidths, depth \in 0..MaxDepth :
                fmt = [NewFormatter([DefaultStyle EXCEPT !.indent = w])
                           EXCEPT !.indent = depth * w]
          /\ token = <<>>
       \/ /\ op = "unquote_block_string"
          /\ pc = "quoted"
          /\ value = <<>>
          /\ fmt = NewFormatter(DefaultStyle)
          /\ token \in {triple_quote(b) : b \in BlockBodies}
       \/ /\ op = "unquote_string"
          /\ pc = "quoted"
          /\ value = <<>>
          /\ fmt = NewFormatter(DefaultStyle)
          /\ token \in StringTokens

\* Value::display for a String: f.write_quoted(val); the literal is what the
\* formatter's buffer holds afterwards.
WriteQuoted ==
    /\ op = "write_quoted"
    /\ pc = "start"
    /\ fmt' = write_quoted(fmt, value)
    /\ token' = fmt'.buf
    /\ pc' = "quoted"
    /\ UNCHANGED <<op, value, unq>>
    /\ UNCHANGED <<streamVars, parserVars, minifyVars, walkVars>>

\* common::string on a StringValue token.
UnquoteString ==
    /\ pc = "quoted"
    /\ ~StartsWith(token, TripleQuote)
    /\ unq' = unquote_string(token)
    /\ pc' = "done"
    /\ UNCHANGED <<op, value, fmt, token>>
    /\ UNCHANGED <<streamVars, parserVars, minifyVars, walkVars>>

\* common::string on a BlockString token.
UnquoteBlockString ==
    /\ pc = "quoted"
    /\ StartsWith(token, TripleQuote)
    /\ unq' = unquote_block_string(token)
    /\ pc' = "done"
    /\ UNCHANGED <<op, value, fmt, token>>
    /\ UNCHANGED <<streamVars, parserVars, minifyVars, walkVars>>

NextCodec == WriteQuoted \/ UnquoteString \/ UnquoteBlockString

SpecCodec == InitCodec /\ [][NextCodec]_vars

-----------------------------------------------------------------------------
(* The token stream: new, then uncons, checkpoint and reset in any order *)

\* The longest source text the stream is opened on, the examples aside.
MaxSrcLen == 4

\* The characters of those texts: what numbers are made of, and a space.
NumberAlphabet ==
    {Ch["-"], Ch["0"], Ch["1"], Ch["."], Ch["e"], Ch["+"], Ch[" "]}

\* The literals of the tokenizer's tests int, zero_int, minus_int,
\* letters_int, float, no_exp_sign_float and letters_float2, and other
\* malformed ones.
NumberExamples ==
    {Str(<<"0", "0", "0", "0", "1">>), Str(<<"-", "0", "0", "0", "0", "1">>),
     Str(<<"0", "b", "b", "c">>), Str(<<"-", "-", "5">>),
     Str(<<"-", "1", "3", "2">>), Str(<<"1", "3", "2">>),
     Str(<<"0", ".", "b", "b", "c">>), Str(<<"0", "b", "b", "c", ".", "0">>),
     Str(<<"1", "e", "+", "5", ".", "3">>), Str(<<"1", ".", "2", ".", "3">>),
     Str(<<"0", ".", "0", "e", "+", "0">>), Str(<<"-", "1", ".", "0", "2", "3">>),
     Str(<<"1", "3", "2", "E", "-", "1", "0">>),
     Str(<<"1", "e", "+", "5", "e", "+", "5">>),
     Str(<<"1", ".", "5", "e", "5">>), Str(<<"1", "0", ")", "{">>),
     Str(<<"1", ".", "0", ",", "2">>), Str(<<"0", "#", " ", "x">>)}

\* The characters single-line strings are scanned over.
StringAlphabet == {Ch["\""], Ch["\\"], Ch["\n"], Ch["a"], Ch[" "]}

\* The literals of the tokenizer's test string.
StringExamples ==
    {Str(<<"\"", "h", "e", "l", "l", "o", "\"">>),
     Str(<<"\"", "m", "y", "\\", "\"", "q", "u", "o", "t", "e", "\"">>)}

\* The characters lines and comments are made of.
LineAlphabet == {Ch["\n"], Ch["\r"], Ch["#"], Ch["a"], Ch[" "]}

\* Block strings with line terminators inside, and a comment ended by a
\* carriage return and a line feed.
LineExamples ==
    {Str(<<"\"", "\"", "\"", "\n", "a", "\n", "\"", "\"", "\"", " ", "b">>),
     Str(<<"\"", "\"", "\"", "a", "\r", "\n", " ", "b", "\"", "\"", "\"",
           "\n", "c">>),
     Str(<<"a", " ", "#", " ", "c", "\r", "\n", "b">>)}

TokenizerSources ==
    StringsUpTo(NumberAlphabet, MaxSrcLen) \cup NumberExamples
    \cup StringsUpTo(StringAlphabet, MaxSrcLen) \cup StringExamples
    \cup StringsUpTo(LineAlphabet, MaxSrcLen) \cup LineExamples

\* The TokenStream the stream variables hold.
Stream ==
    [buf |-> buf, position |-> position, off |-> off,
     next_state |-> next_state]

\* The stream variables after the call hold ts.
StreamBecomes(ts) ==
    /\ buf' = ts.buf
    /\ position' = ts.position
    /\ off' = ts.off
    /\ next_state' = ts.next_state

Init ==
    /\ CodecIdle
    /\ ParserIdle
    /\ MinifyIdle
    /\ WalkIdle
    /\ op = "tokenize"
    /\ pc = "open"
    /\ \E s \in TokenizerSources :
          LET ts == NewTokenStream(s)
          IN  /\ buf = ts.buf
              /\ position = ts.position
              /\ off = ts.off
              /\ next_state = ts.next_state
    /\ last = NotRun
    /\ saved = None

\* uncons on the stream.
Uncons ==
    /\ op = "tokenize"
    /\ LET r == uncons(Stream)
       IN  /\ StreamBecomes(uncons_left(Stream, r))
           /\ last' = IF r.ok THEN [ok |-> TRUE, tok |-> r.tok, at |-> off]
                      ELSE [ok |-> FALSE, err |-> r.err, at |-> off]
    /\ UNCHANGED <<op, pc, saved>>
    /\ UNCHANGED <<codecVars, parserVars, minifyVars, walkVars>>

\* checkpoint on the stream.
Checkpoint ==
    /\ op = "tokenize"
    /\ saved' = Some(checkpoint(Stream))
    /\ UNCHANGED <<op, pc, buf, position, off, next_state, last>>
    /\ UNCHANGED <<codecVars, parserVars, minifyVars, walkVars>>

\* reset of the stream to the checkpoint taken.
Reset ==
    /\ op = "tokenize"
    /\ saved # None
    /\ StreamBecomes(reset(Stream, saved[1]))
    /\ UNCHANGED <<op, pc, last, saved>>
    /\ UNCHANGED <<codecVars, parserVars, minifyVars, walkVars>>

Next == Uncons \/ Checkpoint \/ Reset

Spec == Init /\ [][Next]_vars

-----------------------------------------------------------------------------
(* parse_query, Document::format and consume_definition *)

\* The most tokens of a generated source text.
MaxTokens == 3

\* The tokens generated source texts are made of: punctuators, a name, a
\* comma, a comment with its line end, and an unterminated string.
SourceTokens ==
    {Str(<<"{">>), Str(<<"}">>), Str(<<"a">>), Str(<<",">>),
     Str(<<"#", "c", "\n">>), Str(<<"\"">>)}

\* Definitions that generated tokens are appended to.
SourceDefinitions ==
    {Str(<<"{", "a", "}">>),
     Str(<<"q", "u", "e", "r", "y", " ", "{", " ", "a", " ", "}">>)}

\* Source texts written out: those of the tests of grammar.rs, and
\* documents with every kind of definition, selection, type and value.
ParserExamples ==
    {
Str(<<"q", "u", "e", "r", "y", " ", "{", " ", "a", " ", "}", " ", "q",
           "u", "e", "r", "y", " ", "{", " ", "b", " ", "}">>),
     Str(<<"q", "u", "e", "r", "y", " ", "{", " ", "a", " ", "}", " ", "w",
           "h", "e", "r", "e", " ", "a", " ", ">", " ", "1", " ", "=", ">",
           " ", "1", "0", ".", "0">>),
     Str(<<"w", "h", "e", "r", "e", " ", "a", " ", ">", " ", "1", " ", "=",
           ">", " ", "1", "0", ".", "0">>),
     Str(<<"{", " ", "a", "(", "x", ":", " ", "1", "0", "0", "0", "0", "0",
           "0", "0", "0", "0", "0", "0", "0", "0", "0", "0", "0", "0", "0",
           "0", "0", "0", "0", "0", "0", "0", "0", "0", "0", " ", "}">>),
     Str(<<"q", "u", "e", "r", "y", " ", "Q", "(", "$", "a", ":", " ", "[",
           "I", "n", "t", "!", "]", " ", "=", " ", "[", "1", ",", " ", "2",
           "]", ")", " ", "@", "d", "(", "x", ":", " ", "1", ".", "5", ")",
           " ", "{", " ", "b", ":", " ", "a", "(", "x", ":", " ", "{", "k",
           ":", " ", "\"", "s", "\"", "}", ")", " ", "}">>),
     Str(<<"{", " ", "a", " ", "{", " ", ".", ".", ".", "F", " ", ".", ".",
           ".", " ", "o", "n", " ", "T", " ", "{", " ", "c", " ", "}", " ",
           ".", ".", ".", " ", "@", "d", " ", "{", " ", "c", " ", "}", " ",
           "}", " ", "}", " ", "f", "r", "a", "g", "m", "e", "n", "t", " ",
           "F", " ", "o", "n", " ", "T", " ", "{", " ", "x", " ", "}">>),
     Str(<<"m", "u", "t", "a", "t", "i", "o", "n", " ", "M", "(", "$", "a",
           ":", " ", "A", ",", " ", "$", "b", ":", " ", "B", ")", " ", "{",
           " ", "f", " ", "}">>),
     Str(<<"s", "u", "b", "s", "c", "r", "i", "p", "t", "i", "o", "n", " ",
           "S", " ", "{", " ", "f", " ", "}">>),
     Str(<<"q", "u", "e", "r", "y", " ", "(", "$", "a", ":", " ", "I", "n",
           "t", ")", " ", "{", " ", "f", "(", "x", ":", " ", "$", "a", ")",
           " ", "}">>),
     Str(<<"{", " ", "a", "(", "x", ":", " ", "1", ".", "0", ")", " ", "}">>),
     Str(<<"{", " ", "a", "(", "x", ":", " ", "-", "0", ".", "5", "0", "e",
           "+", "1", ",", " ", "y", ":", " ", "-", "1", "2", ",", " ", "z",
           ":", " ", "[", "t", "r", "u", "e", ",", " ", "f", "a", "l", "s",
           "e", ",", " ", "n", "u", "l", "l", ",", " ", "E", "]", ")", " ",
           "}">>),
     Str(<<"{", " ", "a", "(", "s", ":", " ", "\"", "\"", "\"", "\n", " ",
           " ", "x", "\n", " ", " ", " ", "y", "\n", "\"", "\"", "\"", ")",
           " ", "}">>),
     Str(<<"{", " ", "a", "(", "s", ":", " ", "\"", "x", "\\", "n", "y",
           "\"", ")", " ", "}">>),
     Str(<<"{", "a", "}", "#", "c", "\n", ",", "{", "b", "}">>)}

\* The source texts: tokens with a space between two, alone and after a
\* definition, and the texts written out.
ParserSources ==
    {Join(ts, Str(<<" ">>)) : ts \in SeqsUpTo(SourceTokens, MaxTokens)}
        \cup {Join(<<d>> \o ts, Str(<<" ">>)) :
                 d \in SourceDefinitions,
                 ts \in SeqsUpTo(SourceTokens, MaxTokens - 1)}
        \cup ParserExamples

InitParser ==
    /\ CodecIdle
    /\ StreamIdle
    /\ MinifyIdle
    /\ WalkIdle
    /\ op \in {"parse_query", "consume_definition"}
    /\ pc = "start"
    /\ source \in ParserSources
    /\ parsed = NotRun
    /\ text = <<>>
    /\ reparsed = NotRun
    /\ text2 = <<>>
    /\ stack = <<>>
    /\ ret = None

\* The parser on top of the stack, and the frame that runs it.
Top == stack[Len(stack)]

Node == NodeAt(Grammar(Top.fn), Top.path)

\* A parse_stream is running.
Running == pc \in {"parsing", "reparsing"} /\ stack # <<>>

\* What a step of a parser leaves alone.
StepUnchanged ==
    /\ UNCHANGED <<op, pc, source, parsed, text, reparsed, text2>>
    /\ UNCHANGED <<codecVars, last, saved, minifyVars, walkVars>>

\* The parser on top returns r to the one that called it.
Return(r) ==
    /\ stack' = SubSeq(stack, 1, Len(stack) - 1)
    /\ ret' = Some(r)
    /\ StreamBecomes(r.ts)
    /\ StepUnchanged

\* The parser on top goes on as frame, with the stream ts.
GoOn(frame, ts) ==
    /\ stack' = [stack EXCEPT ![Len(stack)] = frame]
    /\ ret' = None
    /\ StreamBecomes(ts)
    /\ StepUnchanged

\* TokenStream::new(s), and the parser of the entry point fn called on it.
Call(fn, s) ==
    /\ StreamBecomes(NewTokenStream(s))
    /\ stack' = <<Frame(fn, <<>>, NewTokenStream(s))>>
    /\ ret' = None
    /\ UNCHANGED <<codecVars, last, saved, minifyVars, walkVars>>

\* parse_query(source): the stream is made and the parser called.
ParseQuery ==
    /\ op = "parse_query"
    /\ pc = "start"
    /\ Call("parse_query", source)
    /\ pc' = "parsing"
    /\ UNCHANGED <<op, source, parsed, text, reparsed, text2>>

\* consume_definition(source): the stream is made and the parser called.
ConsumeDefinition ==
    /\ op = "consume_definition"
    /\ pc = "start"
    /\ Call("consume_definition", source)
    /\ pc' = "parsing"
    /\ UNCHANGED <<op, source, parsed, text, reparsed, text2>>

\* combine::position
Position ==
    /\ Running /\ ret = None
    /\ Node.t = "position"
    /\ Return(POk(position, Stream, FALSE))

\* combine::satisfy
Satisfy ==
    /\ Running /\ ret = None
    /\ Node.t = "satisfy"
    /\ Return(satisfy(Node.kind, Node.value, Stream))

\* combine::eof
Eof ==
    /\ Running /\ ret = None
    /\ Node.t = "eof"
    /\ Return(parse_eof(Stream))

\* A parser built from others calls the one it runs next.
Enter ==
    /\ Running /\ ret = None
    /\ Node.t \notin {"position", "satisfy", "eof"}
    /\ stack' = Append(stack,
                       IF Node.t = "parser" THEN Frame(Node.fn, <<>>, Stream)
                       ELSE Frame(Top.fn, Append(Top.path, Top.i), Stream))
    /\ UNCHANGED <<ret, buf, off, position, next_state>>
    /\ StepUnchanged

\* combine::parser: the grammar function has returned.
ParserReturn ==
    /\ Running /\ ret # None
    /\ Node.t = "parser"
    /\ Return(parse_stream(Grammar(Node.fn), Back(Top.at, ret[1]), ret[1]))

\* Parser::map
MapReturn ==
    /\ Running /\ ret # None
    /\ Node.t = "map"
    /\ Return(IF ret[1].ok THEN MapVal(ret[1], Apply(Node.f, ret[1].val))
              ELSE ret[1])

\* Parser::and_then
AndThenReturn ==
    /\ Running /\ ret # None
    /\ Node.t = "and_then"
    /\ Return(IF ret[1].ok
              THEN and_then_result(Top.at, ret[1],
                                   ApplyFallible(Node.f, ret[1].val))
              ELSE ret[1])

\* combine::optional
OptionalReturn ==
    /\ Running /\ ret # None
    /\ Node.t = "optional"
    /\ Return(parse_optional(Top.at, ret[1]))

\* The loop of combine::many and many1, r being what the parser returned:
\* a value is collected and the parser called again; many1 fails when the
\* first call does, both when a call fails after consuming; otherwise the
\* stream is put back to where the failed call began.
many_returned(r) ==
    IF r.ok
    THEN GoOn([Top EXCEPT !.vals = Append(@, r.val),
                          !.commit = @ \/ r.commit,
                          !.at = checkpoint(r.ts)], r.ts)
    ELSE IF r.commit \/ (Node.t = "many1" /\ Top.vals = <<>>) THEN Return(r)
    ELSE Return(POk(Top.vals, Back(Top.at, r), Top.commit))

ManyReturn ==
    /\ Running /\ ret # None
    /\ Node.t \in {"many", "many1"}
    /\ many_returned(ret[1])

\* Parser::or, r being what the alternative returned: the next alternative
\* is tried, on the stream put back, after a PeekErr only; when the last has
\* failed so too, the errors of all alternatives are merged.
or_returned(r) ==
    IF IsPeekErr(r) /\ Top.i < Len(Node.ps)
    THEN GoOn([Top EXCEPT !.i = @ + 1, !.vals = Append(@, ErrorsOf(r))],
              Back(Top.at, r))
    ELSE IF IsPeekErr(r)
    THEN Return(WithErrors(r, ErrorsOf(r)
                              \cup UNION {Top.vals[i] : i \in 1..Len(Top.vals)}))
    ELSE Return(r)

OrReturn ==
    /\ Running /\ ret # None
    /\ Node.t = "or"
    /\ or_returned(ret[1])

\* The tuple parser, `and`, `with` and `skip`, r being what the parser in
\* turn returned, its commit state joined to that of those before.
sequence_returned(r) ==
    IF ~r.ok THEN Return(r)
    ELSE IF Top.i < Len(Node.ps)
    THEN GoOn([Top EXCEPT !.i = @ + 1, !.vals = Append(@, r.val),
                          !.commit = r.commit], r.ts)
    ELSE Return(MapVal(r, IF Node.keep = 0 THEN Append(Top.vals, r.val)
                          ELSE Append(Top.vals, r.val)[Node.keep]))

SequenceReturn ==
    /\ Running /\ ret # None
    /\ Node.t = "sequence"
    /\ sequence_returned(After(Top.commit, ret[1]))

\* What the entry point whose parser is Grammar(fn) makes of the ParseResult
\* r: the parse_stream is the one the entry point calls itself, on the
\* stream TokenStream::new has made of the text.
entry_result(fn, r) ==
    into_result(parse_stream(Grammar(fn), NewTokenStream(r.ts.buf), r))

\* The entry point turns the ParseResult of its parser into its Result.
Finish ==
    /\ pc \in {"parsing", "reparsing"}
    /\ stack = <<>>
    /\ ret # None
    /\ IF pc = "reparsing"
       THEN /\ reparsed' = entry_result("parse_query", ret[1])
            /\ pc' = "reparsed"
            /\ UNCHANGED parsed
       ELSE /\ parsed' = IF op = "parse_query"
                         THEN entry_result("parse_query", ret[1])
                         ELSE consumed(source,
                                       entry_result("consume_definition",
                                                    ret[1]))
            /\ pc' = IF op = "parse_query" THEN "parsed" ELSE "consumed"
            /\ UNCHANGED reparsed
    /\ ret' = None
    /\ UNCHANGED <<op, source, text, text2, stack>>
    /\ UNCHANGED <<codecVars, streamVars, minifyVars, walkVars>>

\* document.format(&Style::default())
Format ==
    /\ pc = "parsed"
    /\ parsed.ok
    /\ text' = format(parsed.val, DefaultStyle)
    /\ pc' = "formatted"
    /\ UNCHANGED <<op, source, parsed, reparsed, text2, stack, ret>>
    /\ UNCHANGED <<codecVars, streamVars, minifyVars, walkVars>>

\* parse_query of the formatted text: the stream is made and the parser
\* called.
Reparse ==
    /\ pc = "formatted"
    /\ Call("parse_query", text)
    /\ pc' = "reparsing"
    /\ UNCHANGED <<op, source, parsed, text, reparsed, text2>>

\* parse_query of the text consume_definition has not left as remainder.
ParseConsumed ==
    /\ pc = "consumed"
    /\ parsed.ok
    /\ Call("parse_query",
            SubSeq(source, 1, Len(source) - Len(parsed.rest)))
    /\ pc' = "reparsing"
    /\ UNCHANGED <<op, source, parsed, text, reparsed, text2>>

\* format of the document parsed from the formatted text
Reformat ==
    /\ op = "parse_query"
    /\ pc = "reparsed"
    /\ reparsed.ok
    /\ text2' = format(reparsed.val, DefaultStyle)
    /\ pc' = "done"
    /\ UNCHANGED <<op, source, parsed, text, reparsed, stack, ret>>
    /\ UNCHANGED <<codecVars, streamVars, minifyVars, walkVars>>

\* A step of the parser that is running.
Step ==
    \/ Position \/ Satisfy \/ Eof \/ Enter
    \/ ParserReturn \/ MapReturn \/ AndThenReturn \/ OptionalReturn
    \/ ManyReturn \/ OrReturn \/ SequenceReturn

NextParser ==
    \/ ParseQuery \/ ConsumeDefinition \/ Step \/ Finish
    \/ Format \/ Reparse \/ Reformat \/ ParseConsumed

SpecParser == InitParser /\ [][NextParser]_vars

-----------------------------------------------------------------------------
(* parse_query on deeply nested text *)

\* The nesting of the query of the test recursion_too_deep: selection sets,
\* and list values inside the argument of the innermost field.
SelectionSetDepth == 30

ListDepth == 25

\* format!("{}(b: {}{}){}", "{ a".repeat(n), "[".repeat(m), "]".repeat(m),
\* "}".repeat(n))
NestedQuery(n, m) ==
    RepeatStr(Str(<<"{", " ", "a">>), n) \o Str(<<"(", "b", ":", " ">>)
        \o Repeat(Ch["["], m) \o Repeat(Ch["]"], m) \o Str(<<")">>)
        \o Repeat(Ch["}"], n)

\* The query of the test, and one nested once.
recursion_too_deep == NestedQuery(SelectionSetDepth, ListDepth)

NestedSources == {recursion_too_deep, NestedQuery(1, 1)}

InitNested ==
    /\ CodecIdle
    /\ StreamIdle
    /\ MinifyIdle
    /\ WalkIdle
    /\ op = "parse_query"
    /\ pc = "start"
    /\ source \in NestedSources
    /\ parsed = NotRun
    /\ text = <<>>
    /\ reparsed = NotRun
    /\ text2 = <<>>
    /\ stack = <<>>
    /\ ret = None

NextNested == ParseQuery \/ Step \/ Finish

SpecNested == InitNested /\ [][NextNested]_vars

-----------------------------------------------------------------------------
(* minify_query (src/src/query/minify.rs) *)

\* The longest generated text handed to minify_query.
MaxMinifyLen == 4

\* The characters of those texts: a name, a digit, a punctuator, a space, a
\* character no token starts with, a quote, and a dot.
MinifyAlphabet ==
    {Ch["a"], Ch["1"], Ch["{"], Ch[" "], Ch[";"], Ch["\""], Ch["."]}

\* The queries of the tests strip_ignored_characters and unexpected_token,
\* on one line each.
MinifyExamples ==
    {Str(<<" ", "q", "u", "e", "r", "y", " ", "Q", "(", "$", "f", ":", " ",
           "S", "!", ",", " ", "$", "b", ":", " ", "S", ")", " ", "{", "\n",
           " ", "f", "(", "x", ":", " ", "$", "f", ",", " ", "y", ":", " ",
           "$", "b", ")", " ", "{", " ", "a", "\n", " ", "b", " ", "{", " ",
           ".", ".", ".", " ", "o", "n", " ", "B", " ", "{", " ", "c", " ",
           "\n", " ", "d", " ", "}", " ", "}", " ", "}", " ", "}", "\n">>),
     Str(<<"\n", " ", "q", "u", "e", "r", "y", " ", "f", "o", "o", " ", "{",
           "\n", " ", "b", "a", "r", ";", "\n", " ", "}", "\n">>),
     Str(<<"1", " ", ".", ".", ".">>),
     Str(<<"a", " ", ".", ".", ".", " ", "-", "1", ".", "5", " ", "\"", "s",
           "\"", " ", "\"", "\"", "\"", "b", "\"", "\"", "\"", " ", "x">>)}

MinifySources == StringsUpTo(MinifyAlphabet, MaxMinifyLen) \cup MinifyExamples

InitMinify ==
    /\ CodecIdle
    /\ StreamIdle
    /\ op = "minify_query"
    /\ pc = "start"
    /\ source \in MinifySources
    /\ parsed = NotRun
    /\ text = <<>>
    /\ reparsed = NotRun
    /\ text2 = <<>>
    /\ stack = <<>>
    /\ ret = None
    /\ MinifyIdle
    /\ WalkIdle

\* What the loop of minify_query pushes for a token, with a space put
\* between it and the token before whatever their kinds.
push_bits_spaced(b, prev, tok) == b \o <<Str(<<" ">>), tok.value>>

\* What the loop of minify_query pushes for the token tok onto the bits b:
\* prev is prev_was_punctuator, which the loop sets to is_non_punctuator.
push_bits(b, prev, tok) ==
    IF prev /\ tok.kind # "Punctuator" THEN b \o <<Str(<<" ">>), tok.value>>
    ELSE Append(b, tok.value)

\* What a step of minify_query leaves alone.
MinifyUnchanged ==
    /\ UNCHANGED <<op, source, parsed, text, reparsed, text2, stack, ret>>
    /\ UNCHANGED <<codecVars, saved, walkVars>>

\* minify_query(source) up to its loop.
MinifyQuery ==
    /\ op = "minify_query"
    /\ pc = "start"
    /\ bits' = <<>>
    /\ StreamBecomes(NewTokenStream(source))
    /\ prev_was_punctuator' = FALSE
    /\ pc' = "loop"
    /\ UNCHANGED <<last, minified>>
    /\ MinifyUnchanged

\* The loop, uncons having returned r: a token is pushed; the end of input
\* ends the loop and the bits are joined; any other error is returned.
minify_uncons(r) ==
    IF r.ok
    THEN /\ bits' = push_bits(bits, prev_was_punctuator, r.tok)
         /\ prev_was_punctuator' = (r.tok.kind # "Punctuator")
         /\ StreamBecomes(r.ts)
         /\ last' = [ok |-> TRUE, tok |-> r.tok, at |-> off]
         /\ UNCHANGED <<pc, minified>>
    ELSE /\ minified' = IF r = EndOfInput THEN Ok(Concat(bits)) ELSE Err(r)
         /\ pc' = "done"
         /\ UNCHANGED <<bits, prev_was_punctuator, last>>
         /\ UNCHANGED <<buf, off, position, next_state>>

MinifyLoop ==
    /\ pc = "loop"
    /\ minify_uncons(uncons(Stream))
    /\ MinifyUnchanged

NextMinify == MinifyQuery \/ MinifyLoop

SpecMinify == InitMinify /\ [][NextMinify]_vars

-----------------------------------------------------------------------------
(* parse_query on documents built around one construct of the grammar *)

\* How deep the generated value literals nest.
MaxValueDepth == 2

\* Value literals nested up to n lists and objects deep around a variable
\* and around a number.
RECURSIVE ValueTexts(_)
ValueTexts(n) ==
    IF n = 0 THEN {Str(<<"$", "x">>), Str(<<"1">>)}
    ELSE LET inner == ValueTexts(n - 1)
         IN  ValueTexts(0)
             \cup {Str(<<"[">>) \o v \o Str(<<"]">>) : v \in inner}
             \cup {Str(<<"[", "1", " ">>) \o v \o Str(<<"]">>) : v \in inner}
             \cup {Str(<<"{", "k", ":", " ">>) \o v \o Str(<<"}">>) :
                      v \in inner}

\* The value v as the default value of a variable definition, and as the
\* value of an argument.
DefaultSource(v) ==
    Str(<<"q", "u", "e", "r", "y", " ", "Q", "(", "$", "v", ":", " ", "T",
          " ", "=", " ">>) \o v \o Str(<<")", " ", "{", " ", "a", " ", "}">>)

ArgumentSource(v) ==
    Str(<<"{", " ", "a", "(", "x", ":", " ">>) \o v \o Str(<<")", " ", "}">>)

ValueSources ==
    {DefaultSource(v) : v \in ValueTexts(MaxValueDepth)}
    \cup {ArgumentSource(v) : v \in ValueTexts(MaxValueDepth)}

\* How deep the generated selection sets nest below the operation's.
MaxSetDepth == 2

\* What opens the selection set of each kind of definition, and of a field
\* and of an inline fragment with and without a type condition.
DefinitionPrefixes ==
    {Str(<<"{">>),
     Str(<<"q", "u", "e", "r", "y", " ", "{">>),
     Str(<<"m", "u", "t", "a", "t", "i", "o", "n", " ", "M", " ", "{">>),
     Str(<<"s", "u", "b", "s", "c", "r", "i", "p", "t", "i", "o", "n", " ",
           "{">>),
     Str(<<"f", "r", "a", "g", "m", "e", "n", "t", " ", "F", " ", "o", "n",
           " ", "T", " ", "{">>)}

SelectionPrefixes ==
    {Str(<<"a", " ", "{">>),
     Str(<<".", ".", ".", " ", "o", "n", " ", "T", " ", "{">>),
     Str(<<".", ".", ".", " ", "{">>)}

SetPrefixes ==
    DefinitionPrefixes
    \cup {Str(<<"{">>) \o Concat(ps) :
             ps \in SeqsUpTo(SelectionPrefixes, MaxSetDepth) \ {<<>>}}

\* The document that opens selection sets with prefix, writes inner into
\* the innermost, and closes them all.
SetSource(prefix, inner) ==
    prefix \o inner
    \o Repeat(Ch["}"], Cardinality({i \in 1..Len(prefix) : prefix[i] = Ch["{"]}))

SelectionSetSources ==
    {SetSource(p, inner) : p \in SetPrefixes, inner \in {<<>>, Str(<<"b">>)}}

\* The most arguments a generated field is given.
MaxArgs == 2

\* The arguments fields are given, as name and number: two of them share
\* their name.
ArgChoices == {<<Ch["x"], 1>>, <<Ch["y"], 2>>, <<Ch["x"], 3>>}

ArgText(a) == <<a[1], Ch[":"], Ch[" "], Ch["0"] + a[2]>>

\* The field b, behind the alias a when aliased, with the arguments args.
FieldText(aliased, args) ==
    (IF aliased THEN Str(<<"a", ":", " ">>) ELSE <<>>) \o Str(<<"b">>)
    \o (IF args = <<>> THEN <<>>
        ELSE Str(<<"(">>)
             \o Join([i \in 1..Len(args) |-> ArgText(args[i])],
                     Str(<<",", " ">>))
             \o Str(<<")">>))

FieldSource(aliased, args) ==
    Str(<<"{", " ">>) \o FieldText(aliased, args) \o Str(<<" ", "}">>)

\* The query of the test builtin_values.
builtin_values ==
    Str(<<"{", " ", "a", "(", "t", ":", " ", "t", "r", "u", "e", ",", " ",
          "f", ":", " ", "f", "a", "l", "s", "e", ",", " ", "n", ":", " ",
          "n", "u", "l", "l", ")", " ", "}">>)

FieldSources ==
    {FieldSource(aliased, args) :
        aliased \in BOOLEAN, args \in SeqsUpTo(ArgChoices, MaxArgs)}
    \cup {builtin_values}

\* The field a with the object of the entries args for its argument k.
ObjectSource(args) ==
    Str(<<"{", " ", "a", "(", "k", ":", " ", "{">>)
    \o Join([i \in 1..Len(args) |-> ArgText(args[i])], Str(<<",", " ">>))
    \o Str(<<"}", ")", " ", "}">>)

ObjectSources == {ObjectSource(args) : args \in SeqsUpTo(ArgChoices, MaxArgs)}

\* Integer literals around the ends of the i64 range: the digits of
\* i64::MAX with each last digit, with and without a minus sign; fits tells
\* whether the literal is in -9223372036854775808..9223372036854775807.
BoundaryLiterals ==
    {[neg |-> n, digits |-> SubSeq(I64MaxDigits, 1, 18) \o <<Ch["0"] + d>>,
      fits |-> d <= (IF n THEN 8 ELSE 7)] :
        n \in BOOLEAN, d \in 0..9}

\* Short literals, and literals of one digit more than i64::MAX has.
OtherLiterals ==
    {[neg |-> n, digits |-> ds, fits |-> Len(ds) < 19] :
        n \in BOOLEAN,
        ds \in {Str(<<"0">>), Str(<<"7">>), Str(<<"1", "2">>),
                I64MaxDigits \o Str(<<"0">>),
                Str(<<"1">>) \o SubSeq(I64MaxDigits, 1, 18) \o Str(<<"0">>)}}

IntLiterals == BoundaryLiterals \cup OtherLiterals

\* The literal c as it is written.
LiteralText(c) == (IF c.neg THEN Str(<<"-">>) ELSE <<>>) \o c.digits

\* The query of the test large_integer.
large_integer ==
    Str(<<"{", " ", "a", "(", "x", ":", " ", "1", "0", "0", "0", "0", "0",
          "0", "0", "0", "0", "0", "0", "0", "0", "0", "0", "0", "0", "0",
          "0", "0", "0", "0", "0", "0", "0", "0", "0", "0", " ", "}">>)

IntSources ==
    {ArgumentSource(LiteralText(c)) : c \in IntLiterals} \cup {large_integer}

GrammarSources ==
    ValueSources \cup SelectionSetSources \cup FieldSources
    \cup ObjectSources \cup IntSources

InitGrammar ==
    /\ CodecIdle
    /\ StreamIdle
    /\ MinifyIdle
    /\ WalkIdle
    /\ op = "parse_query"
    /\ pc = "start"
    /\ source \in GrammarSources
    /\ parsed = NotRun
    /\ text = <<>>
    /\ reparsed = NotRun
    /\ text2 = <<>>
    /\ stack = <<>>
    /\ ret = None

NextGrammar == ParseQuery \/ Step \/ Finish \/ Format

SpecGrammar == InitGrammar /\ [][NextGrammar]_vars

-----------------------------------------------------------------------------
(* Documents handed to the visitors, the transformer and the formatter *)

\* The position the nodes of a document built by hand are given.
Pos1 == [line |-> 1, column |-> 1]

\* Field, InlineFragment and FragmentSpread values.
NewField(n, args, items) ==
    [tag |-> "Field", position |-> Pos1, name |-> n, alias |-> None,
     arguments |-> args, directives |-> <<>>,
     selection_set |-> [span |-> <<Pos1, Pos1>>, items |-> items]]

NewInlineFragment(items) ==
    [tag |-> "InlineFragment", position |-> Pos1, type_condition |-> None,
     directives |-> <<>>,
     selection_set |-> [span |-> <<Pos1, Pos1>>, items |-> items]]

NewFragmentSpread(n) ==
    [tag |-> "FragmentSpread", position |-> Pos1, fragment_name |-> n,
     directives |-> <<>>]

\* Definition values: a bare selection set, the operation tag named Q
\* (tag is Query, Mutation or Subscription), and the fragment F.
NewSelectionSet(items) ==
    [tag |-> "SelectionSet",
     selection_set |-> [span |-> <<Pos1, Pos1>>, items |-> items]]

NewOperation(tag, items) ==
    [tag |-> tag, position |-> Pos1, name |-> Some(Str(<<"Q">>)),
     variable_definitions |-> <<>>, directives |-> <<>>,
     selection_set |-> [span |-> <<Pos1, Pos1>>, items |-> items]]

NewFragment(items) ==
    [tag |-> "Fragment", position |-> Pos1, name |-> Str(<<"F">>),
     type_condition |-> Str(<<"T">>),
     directives |-> <<>>,
     selection_set |-> [span |-> <<Pos1, Pos1>>, items |-> items]]

\* Value::Int(Number(n)) for a digit n, and Value::String(s).
IntValue(n) ==
    [tag |-> "Int", int |-> [digits |-> <<Ch["0"] + n>>, neg |-> FALSE]]

StringValue(s) == [tag |-> "String", string |-> s]

\* The items of selection sets without a nested selection set: a field, a
\* fragment spread, two fields, a field with an integer argument, and a
\* field with a string argument of two lines.
LeafItems ==
    {<<NewField(Str(<<"a">>), <<>>, <<>>)>>,
     <<NewFragmentSpread(Str(<<"F">>))>>,
     <<NewField(Str(<<"a">>), <<>>, <<>>),
       NewField(Str(<<"b">>), <<>>, <<>>)>>,
     <<NewField(Str(<<"a">>), <<<<Str(<<"x">>), IntValue(1)>>>>, <<>>)>>,
     <<NewField(Str(<<"s">>),
                <<<<Str(<<"x">>), StringValue(Str(<<"l", "\n", "m">>))>>>>,
                <<>>)>>}

\* The items of selection sets around the items inner: in a field, in an
\* inline fragment, in a field between two fields, in an inline fragment
\* before a field, and in each of two fields.
ItemsAround(inner) ==
    {<<NewField(Str(<<"u">>), <<>>, inner)>>,
     <<NewInlineFragment(inner)>>,
     <<NewField(Str(<<"a">>), <<>>, <<>>),
       NewField(Str(<<"u">>), <<>>, inner),
       NewField(Str(<<"b">>), <<>>, <<>>)>>,
     <<NewInlineFragment(inner), NewField(Str(<<"b">>), <<>>, <<>>)>>,
     <<NewField(Str(<<"u">>), <<>>, inner),
       NewField(Str(<<"v">>), <<>>, inner)>>}

\* The items of selection sets nested up to n deep.
RECURSIVE ItemsUpTo(_)
ItemsUpTo(n) ==
    IF n = 0 THEN LeafItems
    ELSE LeafItems
         \cup UNION {ItemsAround(inner) : inner \in ItemsUpTo(n - 1)}

\* The documents: one bare selection set nested up to MaxSetDepth deep, and
\* two definitions of which one is nested one less deep.
WalkDocuments ==
    {[definitions |-> <<NewSelectionSet(s)>>] : s \in ItemsUpTo(MaxSetDepth)}
    \cup {[definitions |-> <<NewOperation("Query", s), NewFragment(l)>>] :
             s \in ItemsUpTo(MaxSetDepth - 1), l \in LeafItems}
    \cup {[definitions |->
              <<NewOperation("Mutation", l), NewOperation("Subscription", s)>>] :
             s \in ItemsUpTo(MaxSetDepth - 1), l \in LeafItems}

-----------------------------------------------------------------------------
(* visit::<Field>() (src/src/visitor.rs) *)

\* FieldIter::next from where the stack holds the iterators stack (each the
\* items it has not returned yet): the stack next leaves and the Option it
\* returns.  This one does not push the selection set of a field.
RECURSIVE field_iter_next_flat(_)
field_iter_next_flat(stack_) ==
    IF stack_ = <<>> THEN [stack |-> stack_, item |-> None]
    ELSE LET iter == stack_[Len(stack_)]
         IN  IF iter = <<>>
             THEN field_iter_next_flat(SubSeq(stack_, 1, Len(stack_) - 1))
             ELSE LET advanced == [stack_ EXCEPT ![Len(stack_)] = Tail(iter)]
                      f == Head(iter)
                  IN  CASE f.tag = "Field" ->
                              [stack |-> advanced, item |-> Some(f)]
                        [] f.tag = "InlineFragment" ->
                              field_iter_next_flat(
                                  Append(advanced, f.selection_set.items))
                        [] f.tag = "FragmentSpread" ->
                              field_iter_next_flat(advanced)

\* impl Iterator for FieldIter: next, from where the stack holds the
\* iterators stack_ (each the items it has not returned yet): the stack
\* next leaves and the Option it returns.
RECURSIVE field_iter_next(_)
field_iter_next(stack_) ==
    IF stack_ = <<>> THEN [stack |-> stack_, item |-> None]
    ELSE LET iter == stack_[Len(stack_)]
         IN  IF iter = <<>>
             THEN field_iter_next(SubSeq(stack_, 1, Len(stack_) - 1))
             ELSE LET advanced == [stack_ EXCEPT ![Len(stack_)] = Tail(iter)]
                      f == Head(iter)
                  IN  CASE f.tag = "Field" ->
                              [stack |-> Append(advanced,
                                                f.selection_set.items),
                               item |-> Some(f)]
                        [] f.tag = "InlineFragment" ->
                              field_iter_next(
                                  Append(advanced, f.selection_set.items))
                        [] f.tag = "FragmentSpread" ->
                              field_iter_next(advanced)

\* CreateData::new for FieldIter
NewFieldIter(set) == <<set.items>>

\* impl Iterator for DocumentFieldIter: next, from the iterator over the
\* definitions di and the Option of a FieldIter fi: what it leaves of both
\* and the Option it returns.
RECURSIVE document_field_iter_next(_, _)
document_field_iter_next(di, fi) ==
    LET r == field_iter_next(fi[1])
    IN  IF fi # None /\ r.item # None
        THEN [doc_iter |-> di, field_iter |-> Some(r.stack), item |-> r.item]
        ELSE IF di = <<>>
        THEN [doc_iter |-> di, field_iter |-> None, item |-> None]
        ELSE document_field_iter_next(
                 Tail(di), Some(NewFieldIter(Head(di).selection_set)))

\* What a step of an iterator leaves alone.
\* The Transformers: the one that overrides no method of the trait, and one
\* that overrides transform_value to replace every Value::Int by 0.
Transformers == {"none", "transform_value"}

WalkUnchanged ==
    /\ UNCHANGED <<op, document, transformer, transformed, replay>>
    /\ UNCHANGED <<codecVars, streamVars, parserVars, minifyVars>>

InitVisit ==
    /\ CodecIdle
    /\ StreamIdle
    /\ ParserIdle
    /\ MinifyIdle
    /\ op \in {"visit_document", "visit_selection_set"}
    /\ pc = "start"
    /\ document \in WalkDocuments
    /\ doc_iter = <<>>
    /\ field_iter = None
    /\ visited = <<>>
    /\ transformer = "none"
    /\ transformed = NotRun
    /\ replay = <<>>

\* doc.visit::<Field>()
VisitDocument ==
    /\ op = "visit_document"
    /\ pc = "start"
    /\ doc_iter' = document.definitions
    /\ field_iter' = None
    /\ pc' = "iterating"
    /\ UNCHANGED visited
    /\ WalkUnchanged

\* next() on the DocumentFieldIter: the field it returns is pushed to
\* visited, as the loop of the test test_field_iter does; None ends the
\* loop.
DocumentNext ==
    /\ op = "visit_document"
    /\ pc = "iterating"
    /\ LET r == document_field_iter_next(doc_iter, field_iter)
       IN  /\ doc_iter' = r.doc_iter
           /\ field_iter' = r.field_iter
           /\ visited' = IF r.item # None THEN Append(visited, r.item[1])
                         ELSE visited
           /\ pc' = IF r.item # None THEN "iterating" ELSE "done"
    /\ WalkUnchanged

\* set.visit::<Field>() on the selection set of the first definition
VisitSelectionSet ==
    /\ op = "visit_selection_set"
    /\ pc = "start"
    /\ field_iter' = Some(NewFieldIter(document.definitions[1].selection_set))
    /\ pc' = "iterating"
    /\ UNCHANGED <<doc_iter, visited>>
    /\ WalkUnchanged

\* next() on the FieldIter
FieldNext ==
    /\ op = "visit_selection_set"
    /\ pc = "iterating"
    /\ LET r == field_iter_next(field_iter[1])
       IN  /\ field_iter' = Some(r.stack)
           /\ visited' = IF r.item # None THEN Append(visited, r.item[1])
                         ELSE visited
           /\ pc' = IF r.item # None THEN "iterating" ELSE "done"
    /\ UNCHANGED doc_iter
    /\ WalkUnchanged

-----------------------------------------------------------------------------
(* walk_document (src/src/query/query_visitor.rs) *)

\* The visitor is one that records every call of a hook, the hook and its
\* node, in the order of the calls; type_info is None, so that no
\* `if let Some(info) = type_info` is entered.
hook(v, h, node) == Append(v, [hook |-> h, node |-> node])

RECURSIVE walk_selection_set(_, _)
RECURSIVE walk_selections(_, _)

\* walk_field
walk_field(v, node) == hook(v, "visit_field", node)

\* walk_fragment_spread
walk_fragment_spread(v, node) == hook(v, "visit_fragment_spread", node)

\* walk_inline_fragment
walk_inline_fragment(v, node) ==
    walk_selection_set(hook(v, "visit_inline_fragment", node),
                       node.selection_set)

\* walk_selection
walk_selection(v, node) ==
    LET v1 == hook(v, "visit_selection", node)
    IN  CASE node.tag = "Field" ->
                walk_field(hook(v1, "visit_field", node), node)
          [] node.tag = "FragmentSpread" ->
                walk_fragment_spread(hook(v1, "visit_fragment_spread", node),
                                     node)
          [] node.tag = "InlineFragment" ->
                walk_inline_fragment(hook(v1, "visit_inline_fragment", node),
                                     node)

\* for selection in &node.items { visit_selection; walk_selection }
walk_selections(v, items) ==
    IF items = <<>> THEN v
    ELSE walk_selections(
             walk_selection(hook(v, "visit_selection", Head(items)),
                            Head(items)),
             Tail(items))

\* walk_selection_set
walk_selection_set(v, node) ==
    walk_selections(hook(v, "visit_selection_set", node), node.items)

\* walk_variable_definition
walk_variable_definition(v, node) ==
    hook(v, "visit_variable_definition", node)

\* for var_def in &node.variable_definitions { ... }
RECURSIVE walk_variable_definitions(_, _)
walk_variable_definitions(v, defs) ==
    IF defs = <<>> THEN v
    ELSE walk_variable_definitions(
             walk_variable_definition(
                 hook(v, "visit_variable_definition", Head(defs)),
                 Head(defs)),
             Tail(defs))

\* walk_query, walk_mutation and walk_subscription: h is the hook of each.
walk_operation(v, node, h) ==
    LET v1 == walk_variable_definitions(hook(v, h, node),
                                        node.variable_definitions)
    IN  walk_selection_set(hook(v1, "visit_selection_set",
                                node.selection_set),
                           node.selection_set)

\* walk_operation_definition
walk_operation_definition(v, node) ==
    LET v1 == hook(v, "visit_operation_definition", node)
    IN  CASE node.tag = "SelectionSet" ->
                walk_selection_set(hook(v1, "visit_selection_set",
                                        node.selection_set),
                                   node.selection_set)
          [] node.tag = "Query" ->
                walk_operation(hook(v1, "visit_query", node), node,
                               "visit_query")
          [] node.tag = "Mutation" ->
                walk_operation(hook(v1, "visit_mutation", node), node,
                               "visit_mutation")
          [] node.tag = "Subscription" ->
                walk_operation(hook(v1, "visit_subscription", node), node,
                               "visit_subscription")

\* walk_fragment_definition
walk_fragment_definition(v, node) ==
    walk_selection_set(hook(v, "visit_fragment_definition", node),
                       node.selection_set)

\* walk_definition
walk_definition(v, node) ==
    LET v1 == hook(v, "visit_definition", node)
    IN  IF node.tag = "Fragment"
        THEN walk_fragment_definition(
                 hook(v1, "visit_fragment_definition", node), node)
        ELSE walk_operation_definition(
                 hook(v1, "visit_operation_definition", node), node)

\* for def in &node.definitions { walk_definition }
RECURSIVE walk_definitions(_, _)
walk_definitions(v, defs) ==
    IF defs = <<>> THEN v
    ELSE walk_definitions(walk_definition(v, Head(defs)), Tail(defs))

\* walk_document
walk_document(v, node) ==
    walk_definitions(hook(v, "visit_document", node), node.definitions)

\* walk_document(&mut visitor, &document, &mut None)
WalkDocument ==
    /\ op = "walk_document"
    /\ pc = "start"
    /\ visited' = walk_document(<<>>, document)
    /\ pc' = "done"
    /\ UNCHANGED <<doc_iter, field_iter>>
    /\ WalkUnchanged

-----------------------------------------------------------------------------
(* Transformer (src/src/query/transformer.rs) *)

\* Transformed and TransformedValue, which differ in their names only.
Keep == [keep |-> TRUE]

ReplaceWith(x) == [keep |-> FALSE, val |-> x]

\* TransformedValue::should_keep
should_keep(t) == t.keep

\* TransformedValue::replace_or_else, prev being what the closure returns
replace_or_else(t, prev) == IF t.keep THEN prev ELSE t.val

\* The loop of transform_list from the item at index on, next being what f
\* has returned for each item of the list.
RECURSIVE transform_list_loop(_, _, _, _, _)
transform_list_loop(list, next, index, result, has_changes) ==
    IF index > Len(list)
    THEN IF has_changes THEN ReplaceWith(result) ELSE Keep
    ELSE IF next[index].keep
         THEN transform_list_loop(
                  list, next, index + 1,
                  IF has_changes THEN Append(result, list[index])
                  ELSE result,
                  has_changes)
         ELSE transform_list_loop(
                  list, next, index + 1,
                  Append(IF has_changes THEN result
                         ELSE SubSeq(list, 1, index - 1),
                         next[index].val),
                  TRUE)

\* transform_list
transform_list(list, next) == transform_list_loop(list, next, 1, <<>>, FALSE)

\* default_transform_value
default_transform_value(val_) == Keep

\* transform_value of the Transformer t
transform_value(t, val_) ==
    IF t = "transform_value" /\ val_.tag = "Int"
    THEN ReplaceWith(IntValue(0))
    ELSE default_transform_value(val_)

\* default_transform_argument
transform_argument(t, argument) ==
    LET r == transform_value(t, argument[2])
    IN  IF r.keep THEN Keep ELSE ReplaceWith(<<argument[1], r.val>>)

\* transform_arguments
transform_arguments(t, args) ==
    transform_list(args,
                   [i \in DOMAIN args |->
                       transform_argument(t, args[i])])

\* default_transform_directive
transform_directive(t, directive) ==
    LET args == transform_arguments(t, directive.arguments)
    IN  IF args.keep THEN Keep
        ELSE ReplaceWith([directive EXCEPT !.arguments = args.val])

\* transform_directives
transform_directives(t, dirs) ==
    transform_list(dirs,
                   [i \in DOMAIN dirs |->
                       transform_directive(t, dirs[i])])

\* default_transform_variable_definition
transform_variable_definition(t, variable_definition) ==
    IF variable_definition.default_value # None
    THEN LET r == transform_value(t, variable_definition.default_value[1])
         IN  IF should_keep(r) THEN Keep
             ELSE ReplaceWith([variable_definition EXCEPT
                              !.default_value =
                                  Some(replace_or_else(r, @[1]))])
    ELSE Keep

\* default_transform_variable_definitions
transform_variable_definitions(t, variable_definitions) ==
    transform_list(variable_definitions,
                   [i \in DOMAIN variable_definitions |->
                       transform_variable_definition(
                           t, variable_definitions[i])])

RECURSIVE transform_selection_set(_, _)

\* default_transform_fragment_spread
transform_fragment_spread(t, spread) ==
    LET dirs == transform_directives(t, spread.directives)
    IN  ReplaceWith([spread EXCEPT
                    !.directives = replace_or_else(dirs, @)])

\* default_transform_inline_fragment
transform_inline_fragment(t, fragment) ==
    LET selections == transform_selection_set(t, fragment.selection_set)
        dirs == transform_directives(t, fragment.directives)
    IN  IF should_keep(selections) /\ should_keep(dirs) THEN Keep
        ELSE ReplaceWith([fragment EXCEPT
                         !.directives = replace_or_else(dirs, @),
                         !.selection_set.items =
                             replace_or_else(selections, @)])

\* default_transform_field
transform_field(t, fld) ==
    LET set == transform_selection_set(t, fld.selection_set)
        args == transform_arguments(t, fld.arguments)
        dirs == transform_directives(t, fld.directives)
    IN  IF /\ should_keep(set)
           /\ should_keep(args)
           /\ should_keep(dirs)
        THEN Keep
        ELSE ReplaceWith([fld EXCEPT
                         !.arguments = replace_or_else(args, @),
                         !.directives = replace_or_else(dirs, @),
                         !.selection_set.items =
                             replace_or_else(set, @)])

\* default_transform_selection
transform_selection(t, sel) ==
    CASE sel.tag = "FragmentSpread" ->
            transform_fragment_spread(t, sel)
      [] sel.tag = "InlineFragment" ->
            transform_inline_fragment(t, sel)
      [] sel.tag = "Field" -> transform_field(t, sel)

\* transform_selection_set
transform_selection_set(t, selections) ==
    transform_list(selections.items,
                   [i \in DOMAIN selections.items |->
                       transform_selection(t, selections.items[i])])

\* default_transform_fragment
transform_fragment(t, fragment) ==
    LET selections == transform_selection_set(t, fragment.selection_set)
        dirs == transform_directives(t, fragment.directives)
    IN  IF should_keep(selections) /\ should_keep(dirs) THEN Keep
        ELSE ReplaceWith([fragment EXCEPT
                         !.directives = replace_or_else(dirs, @),
                         !.selection_set.items =
                             replace_or_else(selections, @)])

\* default_transform_query, default_transform_mutation and
\* default_transform_subscription
transform_query(t, node) ==
    LET selections == transform_selection_set(t, node.selection_set)
        dirs == transform_directives(t, node.directives)
        variable_definitions ==
            transform_variable_definitions(t, node.variable_definitions)
    IN  IF /\ should_keep(selections)
           /\ should_keep(dirs)
           /\ should_keep(variable_definitions)
        THEN Keep
        ELSE ReplaceWith([node EXCEPT
                         !.directives = replace_or_else(dirs, @),
                         !.selection_set.items =
                             replace_or_else(selections, @),
                         !.variable_definitions =
                             replace_or_else(variable_definitions, @)])

\* default_transform_operation
transform_operation(t, operation) ==
    IF operation.tag = "SelectionSet"
    THEN LET items == transform_selection_set(t, operation.selection_set)
         IN  IF should_keep(items) THEN Keep
             ELSE ReplaceWith([operation EXCEPT
                              !.selection_set.items =
                                  replace_or_else(items, @)])
    ELSE transform_query(t, operation)

\* default_transform_definition
transform_definition(t, def_) ==
    IF def_.tag = "Fragment" THEN transform_fragment(t, def_)
    ELSE transform_operation(t, def_)

\* The loop of default_transform_document over the definitions.
RECURSIVE transform_definitions(_, _, _, _)
transform_definitions(t, definitions, next_document, has_changes) ==
    IF definitions = <<>>
    THEN IF has_changes THEN ReplaceWith(next_document) ELSE Keep
    ELSE LET def_ == Head(definitions)
             r == transform_definition(t, def_)
         IN  IF r.keep
             THEN transform_definitions(
                      t, Tail(definitions),
                      [next_document EXCEPT
                          !.definitions = Append(@, def_)],
                      has_changes)
             ELSE transform_definitions(
                      t, Tail(definitions),
                      [next_document EXCEPT
                          !.definitions = Append(@, r.val)],
                      TRUE)

\* default_transform_document
transform_document(t, document_) ==
    transform_definitions(t, document_.definitions,
                          [definitions |-> <<>>], FALSE)

\* transformer.transform_document(&document)
TransformDocument ==
    /\ op = "transform_document"
    /\ pc = "start"
    /\ transformed' = transform_document(transformer, document)
    /\ pc' = "done"
    /\ UNCHANGED <<op, document, transformer, replay>>
    /\ UNCHANGED <<doc_iter, field_iter, visited>>
    /\ UNCHANGED <<codecVars, streamVars, parserVars, minifyVars>>

NextVisit == VisitDocument \/ DocumentNext \/ VisitSelectionSet \/ FieldNext

SpecVisit == InitVisit /\ [][NextVisit]_vars

\* The loop that calls next goes on until next has returned None.
FairSpecVisit == SpecVisit /\ WF_vars(NextVisit)

\* walk_document with the visitor that records its calls, and
\* transform_document of each of the Transformers, on the same documents.
InitWalk ==
    /\ CodecIdle
    /\ StreamIdle
    /\ ParserIdle
    /\ MinifyIdle
    /\ op \in {"walk_document", "transform_document"}
    /\ pc = "start"
    /\ document \in WalkDocuments
    /\ doc_iter = <<>>
    /\ field_iter = None
    /\ visited = <<>>
    /\ transformer \in IF op = "transform_document" THEN Transformers
                      ELSE {"none"}
    /\ transformed = NotRun
    /\ replay = <<>>

NextWalk == WalkDocument \/ TransformDocument

SpecWalk == InitWalk /\ [][NextWalk]_vars

-----------------------------------------------------------------------------
(* The indent of a Formatter as the u32 it is (src/src/format.rs) *)

\* A u32 is kept as two 16-bit halves, <<high, low>>.
U32(n) == <<0, n>>

\* u32::MAX, and 2^31.
U32Max == <<65535, 65535>>

U32HighBit == <<32768, 0>>

\* a + b as the wrapped sum and whether it overflowed
u32_add(a, b) ==
    LET low == a[2] + b[2]
        high == a[1] + b[1] + (low \div 65536)
    IN  [val |-> <<high % 65536, low % 65536>>, overflow |-> high >= 65536]

\* a < b
u32_less(a, b) == a[1] < b[1] \/ (a[1] = b[1] /\ a[2] < b[2])

\* a - b as the wrapped difference and whether it overflowed
u32_sub(a, b) ==
    LET borrow == IF a[2] < b[2] THEN 1 ELSE 0
        low == a[2] + 65536 * borrow - b[2]
        high == a[1] - b[1] - borrow
    IN  [val |-> <<(high + 65536) % 65536, low>>, overflow |-> u32_less(a, b)]

\* u32::checked_sub
checked_sub(a, b) == IF u32_less(a, b) THEN None ELSE Some(u32_sub(a, b).val)

\* The widths a Style is given with Style::indent: none, that of
\* Style::default, four, 2^31 and u32::MAX.
StyleIndents == {U32(0), U32(2), U32(4), U32HighBit, U32Max}

\* The documents formatted: those of one bare selection set.
IndentDocuments ==
    {[definitions |-> <<NewSelectionSet(s)>>] : s \in ItemsUpTo(MaxSetDepth)}
    \cup {[definitions |-> <<NewOperation("Query", l), NewFragment(l)>>] :
             l \in LeafItems}

\* replay is the Formatter of Document::format(&style) as far as its indent
\* goes: style_indent is style.indent, indent the field of that name,
\* overflow_checks whether the build checks the arithmetic of integers
\* (as a debug build does and a release build does not), calls the changes
\* of the indent formatting the document has yet to make, and panic the
\* message of the panic that has ended it.
InitIndent ==
    /\ CodecIdle
    /\ StreamIdle
    /\ ParserIdle
    /\ MinifyIdle
    /\ op = "format"
    /\ pc = "start"
    /\ document \in IndentDocuments
    /\ doc_iter = <<>>
    /\ field_iter = None
    /\ visited = <<>>
    /\ transformer = "none"
    /\ transformed = NotRun
    /\ \E w \in StyleIndents, c \in BOOLEAN :
           replay = [style_indent |-> w, indent |-> U32(0),
                     overflow_checks |-> c, calls |-> <<>>, panic |-> None]

IndentUnchanged ==
    /\ UNCHANGED <<op, document, doc_iter, field_iter, visited>>
    /\ UNCHANGED <<transformer, transformed>>
    /\ UNCHANGED <<codecVars, streamVars, parserVars, minifyVars>>

\* Formatter::new, and the changes of the indent that displaying the
\* document makes: they are the same for every style.indent, which no
\* display tests.
FormatDocument ==
    /\ op = "format"
    /\ pc = "start"
    /\ replay' = [replay EXCEPT
                     !.calls = display_document(NewFormatter(DefaultStyle),
                                                document.definitions).calls]
    /\ pc' = "formatting"
    /\ IndentUnchanged

\* What is left to do after a change of the indent: the other calls, or
\* nothing after a panic.
Replayed(indent_, panic_) ==
    /\ replay' = [replay EXCEPT !.indent = indent_,
                                !.panic = panic_,
                                !.calls = Tail(@)]
    /\ pc' = IF panic_ # None THEN "panicked"
             ELSE IF Tail(replay.calls) = <<>> THEN "done"
             ELSE "formatting"
    /\ IndentUnchanged

\* self.indent += self.style.indent
AddIndent ==
    LET r == u32_add(replay.indent, replay.style_indent)
    IN  IF r.overflow /\ replay.overflow_checks
        THEN Replayed(replay.indent, Some("attempt to add with overflow"))
        ELSE Replayed(r.val, None)

\* self.indent -= self.style.indent
SubIndent ==
    LET r == u32_sub(replay.indent, replay.style_indent)
    IN  IF r.overflow /\ replay.overflow_checks
        THEN Replayed(replay.indent,
                      Some("attempt to subtract with overflow"))
        ELSE Replayed(r.val, None)

\* Formatter::inc_indent
IncIndent ==
    /\ pc = "formatting"
    /\ Head(replay.calls) = "inc_indent"
    /\ AddIndent

\* Formatter::dec_indent
DecIndent ==
    /\ pc = "formatting"
    /\ Head(replay.calls) = "dec_indent"
    /\ LET r == checked_sub(replay.indent, replay.style_indent)
       IN  IF r = None THEN Replayed(replay.indent, Some("negative indent"))
           ELSE Replayed(r[1], None)

\* The `self.indent += self.style.indent` of write_quoted
QuotedAddIndent ==
    /\ pc = "formatting"
    /\ Head(replay.calls) = "+="
    /\ AddIndent

\* The `self.indent -= self.style.indent` of write_quoted
QuotedSubIndent ==
    /\ pc = "formatting"
    /\ Head(replay.calls) = "-="
    /\ SubIndent

NextIndent ==
    \/ FormatDocument
    \/ IncIndent \/ DecIndent \/ QuotedAddIndent \/ QuotedSubIndent

SpecIndent == InitIndent /\ [][NextIndent]_vars

-----------------------------------------------------------------------------
(* Claims about the literal codec *)

\* The pieces of s between line feeds (a final line feed starts an empty
\* last piece).
RECURSIVE SplitLF(_)
SplitLF(s) ==
    LET i == IndexOf(s, Ch["\n"])
    IN  IF i = 0 THEN <<s>>
        ELSE <<SubSeq(s, 1, i - 1)>> \o SplitLF(Drop(s, i))

\* The lines of the body of the block-string token, the positions (from 1)
\* of those that are not entirely whitespace, and the least number of
\* leading whitespace characters among those of them after the first line.
TokenLines == SplitLF(SubSeq(token, 4, Len(token) - 3))
TokenNonBlank ==
    {i \in 1..Len(TokenLines) :
        \E j \in 1..Len(TokenLines[i]) : ~IsWhitespace(TokenLines[i][j])}
TokenIndent ==
    LET later == TokenNonBlank \ {1}
    IN  IF later = {} THEN 0
        ELSE Min({LeadingWhitespace(TokenLines[i]) : i \in later})

\* C2: for every string s that write_quoted writes in the single-line form
\* (s has no line feed, or has a character outside tab, CR and
\* U+0020..U+FFFF), unquote_string of the literal written returns s.
C2_SingleLineRoundTrip ==
    LET single ==
            \/ \A i \in 1..Len(value) : value[i] # 10
            \/ \E i \in 1..Len(value) :
                   ~(value[i] \in {9, 10, 13} \/ value[i] \in 32..65535)
    IN  (op = "write_quoted" /\ pc = "done" /\ single) => unq = Ok(value)

\* C3: for every string s with a line feed and no control character, at any
\* formatter indent and indent width, unquote_block_string of the
\* triple-quote literal write_quoted writes returns s.
C3_BlockRoundTrip ==
    LET block ==
            /\ \E i \in 1..Len(value) : value[i] = 10
            /\ \A i \in 1..Len(value) :
                   value[i] \in {9, 10, 13} \/ value[i] \in 32..65535
    IN  (op = "write_quoted" /\ pc = "done" /\ block) => unq = Ok(value)

\* C4: unquote_block_string returns the lines from the first to the last
\* line that is not entirely whitespace, joined with one line feed each;
\* the first line of the token is kept as it is, every other non-blank line
\* loses exactly the common indent (the least leading-whitespace count over
\* the non-blank lines other than the first), the blank lines in between
\* stay blank, and the result is empty when every line is blank.  The body
\* of block_string_leading_and_trailing_empty_lines yields its value.
C4_BlockStringDedent ==
    (pc = "done" /\ StartsWith(token, TripleQuote)) =>
        /\ unq.ok
        /\ IF TokenNonBlank = {} THEN unq.val = <<>>
           ELSE LET first == Min(TokenNonBlank)
                    out == SplitLF(unq.val)
                IN  /\ Len(out) = Max(TokenNonBlank) - first + 1
                    /\ \A k \in 1..Len(out) :
                         LET i == first + k - 1
                             line == Replace(TokenLines[i],
                                             EscapedTripleQuote, TripleQuote)
                         IN  IF i = 1 THEN out[k] = line
                             ELSE IF i \in TokenNonBlank
                             THEN out[k] = Drop(line, TokenIndent)
                             ELSE IsBlank(out[k])
        /\ token = triple_quote(ExampleBody) => unq.val = ExampleValue

\* C4's case: the example body has been unquoted to the example value.
C4_Witness ==
    /\ op = "unquote_block_string"
    /\ pc = "done"
    /\ token = triple_quote(ExampleBody)
    /\ unq = Ok(ExampleValue)

\* C5: every retained line other than the first line of the token has
\* exactly the common indent removed, and a retained line shorter than the
\* common indent becomes the empty line.
C5_ShortLineBecomesEmpty ==
    (op = "unquote_block_string" /\ pc = "done" /\ TokenNonBlank # {}) =>
        LET first == Min(TokenNonBlank)
            out == SplitLF(unq.val)
        IN  /\ unq.ok
            /\ Len(out) = Max(TokenNonBlank) - first + 1
            /\ \A k \in 1..Len(out) :
                 LET i == first + k - 1
                     line == Replace(TokenLines[i],
                                     EscapedTripleQuote, TripleQuote)
                 IN  i # 1 =>
                         out[k] = IF Len(line) >= TokenIndent
                                  THEN Drop(line, TokenIndent)
                                  ELSE <<>>

-----------------------------------------------------------------------------
(* Claims about number tokens *)

\* The number span the last uncons scanned: the characters from the offset
\* it was called at up to the next delimiter (white space, comma, comment
\* or punctuator) or the end of the text.
LastSpan ==
    LET rest == Drop(buf, last.at)
        stops == {i \in 1..Len(rest) :
                     rest[i] \in {32, 10, 13, 9, 44, 35, 33, 36, 58, 61, 64,
                                  124, 40, 41, 91, 93, 123, 125}}
    IN  IF stops = {} THEN rest ELSE SubSeq(rest, 1, Min(stops) - 1)

\* The last uncons was called at a '-' or a digit.
LastWasNumber ==
    /\ last # NotRun
    /\ last.at < Len(buf)
    /\ buf[last.at + 1] = 45 \/ buf[last.at + 1] \in 48..57

\* s is "0", "-0" or matches -?[1-9][0-9]*.
IntGrammar(s) ==
    LET digits == IF s # <<>> /\ s[1] = 45 THEN Tail(s) ELSE s
    IN  /\ digits # <<>>
        /\ \A i \in 1..Len(digits) : digits[i] \in 48..57
        /\ digits[1] = 48 => Len(digits) = 1

\* s is empty, or a '.' and one or more digits.
FractionGrammar(s) ==
    \/ s = <<>>
    \/ /\ Len(s) >= 2
       /\ s[1] = 46
       /\ \A i \in 2..Len(s) : s[i] \in 48..57

\* s is empty, or 'e' or 'E', a sign, and one or more digits.
ExponentGrammar(s) ==
    \/ s = <<>>
    \/ /\ Len(s) >= 3
       /\ s[1] \in {101, 69}
       /\ s[2] \in {43, 45}
       /\ \A i \in 3..Len(s) : s[i] \in 48..57

\* s is an int part, then a fraction, then an exponent, one of the two
\* at least being there.
FloatGrammar(s) ==
    \E i \in 1..(Len(s) - 1), j \in 1..Len(s) :
        /\ i <= j
        /\ IntGrammar(SubSeq(s, 1, i))
        /\ FractionGrammar(SubSeq(s, i + 1, j))
        /\ ExponentGrammar(SubSeq(s, j + 1, Len(s)))

\* C7: a number span without '.', 'e' and 'E' is returned as an IntValue
\* token if and only if it is "0", "-0" or matches -?[1-9][0-9]*; for every
\* other such span uncons returns a scan error.
C7_IntValueGrammar ==
    (LastWasNumber /\ \A i \in 1..Len(LastSpan) : LastSpan[i] \notin {46, 101, 69})
        => IF IntGrammar(LastSpan)
           THEN /\ last.ok
                /\ last.tok = [kind |-> "IntValue", value |-> LastSpan]
           ELSE ~last.ok /\ last.err = "unsupported integer"

\* C7's case: uncons has refused the span "-01".
C7_Witness ==
    /\ buf = Str(<<"-", "0", "1">>)
    /\ last = [ok |-> FALSE, err |-> "unsupported integer", at |-> 0]

\* C8: a number span with a '.', an 'e' or an 'E' is returned as a
\* FloatValue token if and only if it is a valid int part, then an optional
\* '.' with one or more digits, then an optional exponent marker with a
\* mandatory sign and one or more digits, one of the two parts at least
\* being there; for every other such span uncons returns a scan error.
C8_FloatValueGrammar ==
    (LastWasNumber /\ \E i \in 1..Len(LastSpan) : LastSpan[i] \in {46, 101, 69})
        => IF FloatGrammar(LastSpan)
           THEN /\ last.ok
                /\ last.tok = [kind |-> "FloatValue", value |-> LastSpan]
           ELSE ~last.ok /\ last.err = "unsupported float"

\* C8's case: uncons has returned "0.0e+0" as a FloatValue.
C8_Witness ==
    /\ buf = Str(<<"0", ".", "0", "e", "+", "0">>)
    /\ last = [ok |-> TRUE, at |-> 0,
               tok |-> [kind |-> "FloatValue",
                        value |-> Str(<<"0", ".", "0", "e", "+", "0">>)]]

-----------------------------------------------------------------------------
(* Claims about parse_query, format and consume_definition *)

\* The position every position is replaced by when positions are ignored.
NoPos == [line |-> 0, column |-> 0]

\* The directives ds, their positions ignored.
UnpositionedDirectives(ds) ==
    [i \in DOMAIN ds |-> [ds[i] EXCEPT !.position = NoPos]]

\* The selection set ss, its span and the positions inside it ignored.
RECURSIVE UnpositionedSelectionSet(_)
UnpositionedSelectionSet(ss) ==
    [span |-> <<NoPos, NoPos>>,
     items |->
        [i \in DOMAIN ss.items |->
            LET item == ss.items[i]
            IN  IF item.tag = "FragmentSpread"
                THEN [item EXCEPT
                        !.position = NoPos,
                        !.directives = UnpositionedDirectives(@)]
                ELSE [item EXCEPT
                        !.position = NoPos,
                        !.directives = UnpositionedDirectives(@),
                        !.selection_set = UnpositionedSelectionSet(@)]]]

\* The definition d, positions and spans ignored.
UnpositionedDefinition(d) ==
    CASE d.tag = "SelectionSet" ->
            [d EXCEPT !.selection_set = UnpositionedSelectionSet(@)]
      [] d.tag = "Fragment" ->
            [d EXCEPT !.position = NoPos,
                      !.directives = UnpositionedDirectives(@),
                      !.selection_set = UnpositionedSelectionSet(@)]
      [] OTHER ->
            [d EXCEPT !.position = NoPos,
                      !.variable_definitions =
                          [i \in DOMAIN @ |-> [@[i] EXCEPT !.position = NoPos]],
                      !.directives = UnpositionedDirectives(@),
                      !.selection_set = UnpositionedSelectionSet(@)]

\* The document doc, positions and spans ignored.
UnpositionedDocument(doc) ==
    [definitions |->
        [i \in DOMAIN doc.definitions |->
            UnpositionedDefinition(doc.definitions[i])]]

\* C1: for every source text parse_query accepts, the formatted text parses
\* again, to the same AST when positions and spans are ignored, and
\* formatting that second AST yields the formatted text again.
C1_FormatRoundTrip ==
    (op = "parse_query" /\ pc \in {"reparsed", "done"})
        => /\ reparsed.ok
           /\ UnpositionedDocument(reparsed.val)
                = UnpositionedDocument(parsed.val)
           /\ pc = "done" => text2 = text

\* C6: parse_query refuses the query of the test recursion_too_deep, 30
\* selection sets around a list value 25 brackets deep: it reads no further
\* than 1:114, and returns the error "Recursion limit exceeded" there.
C6_RecursionLimit ==
    source = recursion_too_deep
        => /\ position.column <= 114
           /\ pc = "parsed"
                => /\ ~parsed.ok
                   /\ parsed.err = "Recursion limit exceeded"
                   /\ parsed.pos = [line |-> 1, column |-> 114]

\* The text s without the white space, commas and comments it starts with.
RECURSIVE SkipIgnored(_)
SkipIgnored(s) ==
    IF s = <<>> THEN s
    ELSE IF s[1] \in {32, 9, 10, 13, 44, 65279} THEN SkipIgnored(Tail(s))
    ELSE IF s[1] = 35
    THEN LET ends == {i \in 1..Len(s) : s[i] \in {10, 13}}
         IN  IF ends = {} THEN <<>> ELSE SkipIgnored(Drop(s, Min(ends)))
    ELSE s

\* C9: parse_query returns Ok only with one or more definitions and no
\* token left on the stream; a text that is only white space, commas and
\* comments, and a definition followed by a closing brace, are errors.
C9_WholeStreamConsumed ==
    (op = "parse_query" /\ pc = "parsed")
        => /\ parsed.ok
                => /\ Len(parsed.val.definitions) >= 1
                   /\ parsed.tokens.off = Len(source)
                   /\ ~uncons(parsed.tokens).ok
                   /\ uncons(parsed.tokens).err = "end of input"
           /\ SkipIgnored(source) = <<>> => ~parsed.ok
           /\ (\E d \in SourceDefinitions :
                   StartsWith(source, d \o Str(<<" ", "}">>)))
                => ~parsed.ok

\* C9's case: parse_query has refused a definition followed by a closing
\* brace, at the brace.
C9_Witness ==
    /\ op = "parse_query"
    /\ pc = "parsed"
    /\ source = Str(<<"{", "a", "}", " ", "}">>)
    /\ ~parsed.ok
    /\ parsed.pos = [line |-> 1, column |-> 5]

\* The offset into the text s of the position pos, s being without tabs
\* and carriage returns.
RECURSIVE OffsetOf(_, _)
OffsetOf(s, pos) ==
    IF pos.line = 1 THEN pos.column - 1
    ELSE IndexOf(s, 10)
            + OffsetOf(Drop(s, IndexOf(s, 10)), [pos EXCEPT !.line = @ - 1])

\* The offset into s after the definition d parsed from it: after the
\* closing brace of its selection set.
DefinitionEnd(s, d) == OffsetOf(s, d.selection_set.span[2]) + 1

\* C10: consume_definition returns the first definition of the source (the
\* one parse_query finds in the text consumed) and the rest of the source
\* from the first character after it that is not white space, a comma or a
\* comment; it succeeds on a definition whatever follows it.
C10_ConsumeDefinition ==
    (op = "consume_definition" /\ pc \in {"consumed", "reparsing", "reparsed"})
        => /\ parsed.ok
                => parsed.rest
                     = SkipIgnored(Drop(source,
                                        DefinitionEnd(source, parsed.val)))
           /\ pc = "reparsed"
                => /\ reparsed.ok
                   /\ reparsed.val.definitions = <<parsed.val>>
           /\ (\E d \in SourceDefinitions : StartsWith(source, d))
                => parsed.ok

\* C10's case: the text of the test
\* consume_single_query_preceding_non_graphql, its definition consumed.
C10_Witness ==
    /\ op = "consume_definition"
    /\ pc = "reparsed"
    /\ source = Str(<<"q", "u", "e", "r", "y", " ", "{", " ", "a", " ", "}",
                      " ", "w", "h", "e", "r", "e", " ", "a", " ", ">", " ",
                      "1", " ", "=", ">", " ", "1", "0", ".", "0">>)
    /\ parsed.ok
    /\ parsed.rest = Str(<<"w", "h", "e", "r", "e", " ", "a", " ", ">", " ",
                           "1", " ", "=", ">", " ", "1", "0", ".", "0">>)

-----------------------------------------------------------------------------
(* minify_query *)

\* The token minify_query has pushed last was not a punctuator.
LastWasNonPunctuator ==
    last # NotRun /\ last.ok /\ last.tok.kind # "Punctuator"

\* What stands between the token pushed last and the token tok.
Separator(tok) ==
    IF LastWasNonPunctuator /\ tok.kind # "Punctuator" THEN Str(<<" ">>)
    ELSE <<>>

\* A turn of the loop of minify_query, the tokenizer having reported r: a
\* token is appended behind its separator; the end of input returns what
\* has been appended; a scan error returns that error and no output.
MinifyStep(r) ==
    IF r.ok
    THEN /\ pc' = "loop"
         /\ minified' = NotRun
         /\ Concat(bits') = Concat(bits) \o Separator(r.tok) \o r.tok.value
    ELSE /\ pc' = "done"
         /\ minified' = IF r = EndOfInput THEN Ok(Concat(bits)) ELSE Err(r)

\* C11: minify_query returns the token texts in source order, with exactly
\* one space between two consecutive tokens when neither is a punctuator and
\* nothing between them otherwise; a scan error of the tokenizer is returned
\* as the error, carrying its message, and nothing is output.
C11_Minify ==
    [][op = "minify_query" /\ pc = "loop" => MinifyStep(uncons(Stream))]_vars

\* The query of the test strip_ignored_characters has been minified, names
\* and punctuators both having followed names.
C11_Witness ==
    /\ op = "minify_query"
    /\ pc = "done"
    /\ Len(source) > MaxMinifyLen + 40
    /\ minified = Ok(Str(<<"q", "u", "e", "r", "y", " ", "Q", "(", "$", "f",
                           ":", "S", "!", "$", "b", ":", "S", ")", "{", "f",
                           "(", "x", ":", "$", "f", " ", "y", ":", "$", "b",
                           ")", "{", "a", " ", "b", "{", ".", ".", ".", "o",
                           "n", " ", "B", "{", "c", " ", "d", "}", "}", "}",
                           "}">>))

-----------------------------------------------------------------------------
(* Single-line strings *)

\* The last uncons was called where a double quote that opens no block
\* string stands.
LastWasString ==
    /\ op = "tokenize"
    /\ last # NotRun
    /\ last.at < Len(buf)
    /\ buf[last.at + 1] = Ch["\""]
    /\ ~StartsWith(Drop(buf, last.at), TripleQuote)

\* The places behind that opening quote of the double quotes no backslash
\* stands immediately before, and of the newlines.
ClosingQuotes ==
    {i \in (last.at + 2)..Len(buf) :
        buf[i] = Ch["\""] /\ buf[i - 1] # Ch["\\"]}

Newlines == {i \in (last.at + 2)..Len(buf) : buf[i] = Ch["\n"]}

\* C12: a double quote immediately preceded by a backslash does not end a
\* single-line string; the StringValue token ends at the first double quote
\* not immediately preceded by a backslash, and a newline or the end of the
\* input before such a quote is the error "unterminated string value".
C12_StringScan ==
    LastWasString =>
        IF ClosingQuotes # {}
           /\ \A n \in Newlines : n > Min(ClosingQuotes)
        THEN /\ last.ok
             /\ last.tok.kind = "StringValue"
             /\ last.tok.value = SubSeq(buf, last.at + 1, Min(ClosingQuotes))
        ELSE last = [ok |-> FALSE, err |-> "unterminated string value",
                     at |-> last.at]

\* The string of the tokenizer's test, "my\"quote", has been scanned as one
\* token, the quote behind the backslash inside it.
C12_Witness ==
    /\ LastWasString
    /\ last.ok
    /\ last.tok.value = Str(<<"\"", "m", "y", "\\", "\"", "q", "u", "o", "t",
                              "e", "\"">>)

-----------------------------------------------------------------------------
(* unquote_string *)

\* unquote_string has returned; what stood between the quotes of its token.
Unquoted == op = "unquote_string" /\ pc = "done"

Body == SubSeq(token, 2, Len(token) - 1)

\* The character each escape denotes.
Denoted ==
    (Ch["\""] :> Ch["\""]) @@ (Ch["\\"] :> Ch["\\"]) @@ (Ch["/"] :> Ch["/"])
    @@ (Ch["b"] :> 8) @@ (Ch["f"] :> 12) @@ (Ch["n"] :> Ch["\n"])
    @@ (Ch["r"] :> Ch["\r"]) @@ (Ch["t"] :> Ch["\t"])

\* The body chars with every escape replaced by the character it denotes,
\* or an error when a backslash stands before no escape character.
RECURSIVE Decoded(_)
Decoded(chars) ==
    IF chars = <<>> THEN Ok(<<>>)
    ELSE LET n == IF Head(chars) = Ch["\\"] THEN 2 ELSE 1
             rest == Decoded(Drop(chars, n))
         IN  IF n = 2 /\ chars[2] \notin DOMAIN Denoted THEN Err("bad escape")
             ELSE IF ~rest.ok THEN rest
             ELSE Ok(<<IF n = 2 THEN Denoted[chars[2]] ELSE chars[1]>>
                     \o rest.val)

\* C13: unquote_string decodes the escapes \" \\ \/ \b \f \n \r \t to the
\* characters they denote (\b to U+0008, \f to U+000C), copies every other
\* character unchanged, and returns an error for a backslash followed by any
\* other character except 'u'.
C13_SimpleEscapes ==
    Unquoted /\ (\A i \in 1..Len(Body) : Body[i] # Ch["u"]) =>
        IF Decoded(Body).ok THEN unq = Decoded(Body) ELSE ~unq.ok

IsHexDigit(c) ==
    c \in Ch["0"]..Ch["9"] \/ c \in Ch["a"]..Ch["f"] \/ c \in Ch["A"]..Ch["F"]

\* The number the four hexadecimal digits h denote.
HexValue(h) ==
    4096 * HexDigit(h[1]) + 256 * HexDigit(h[2]) + 16 * HexDigit(h[3])
    + HexDigit(h[4])

\* The token is a \u followed by characters none of which is a backslash.
UnicodeEscapeOnly ==
    /\ Unquoted
    /\ StartsWith(Body, Str(<<"\\", "u">>))
    /\ \A i \in 3..Len(Body) : Body[i] # Ch["\\"]

\* C14: unquote_string accepts \u only when four characters follow it that
\* are all hexadecimal digits and denote a Unicode scalar value, and decodes
\* it to that one character; fewer than four characters, a character among
\* the four that is no hexadecimal digit (a sign included), or a surrogate
\* code point is an error.
C14_UnicodeEscape ==
    UnicodeEscapeOnly =>
        IF /\ Len(Body) >= 6
           /\ \A i \in 3..6 : IsHexDigit(Body[i])
           /\ IsScalarValue(HexValue(SubSeq(Body, 3, 6)))
        THEN unq = Ok(<<HexValue(SubSeq(Body, 3, 6))>> \o Drop(Body, 6))
        ELSE ~unq.ok

-----------------------------------------------------------------------------
(* Values, selection sets and fields *)

\* parse_query has returned.
Parsed == op = "parse_query" /\ pc = "parsed"

\* The value v is a variable or holds one in its lists and objects.
RECURSIVE HasVariable(_)
HasVariable(v) ==
    CASE v.tag = "Variable" -> TRUE
      [] v.tag = "List" -> \E i \in 1..Len(v.items) : HasVariable(v.items[i])
      [] v.tag = "Object" ->
            \E i \in 1..Len(v.fields) : HasVariable(v.fields[i][2])
      [] OTHER -> FALSE

\* The variable definitions of the definition d.
VariableDefinitionsOf(d) ==
    IF d.tag \in {"Query", "Mutation", "Subscription"}
    THEN d.variable_definitions
    ELSE <<>>

\* C15: a default value never contains a variable reference: `$x` at the
\* top of a default value or nested at any depth in its lists and objects is
\* a parse error, while the same value is accepted as an argument.
C15_DefaultValueConst ==
    Parsed =>
        /\ \A v \in ValueTexts(MaxValueDepth) :
              /\ source = DefaultSource(v) =>
                    (parsed.ok <=> \A i \in 1..Len(v) : v[i] # Ch["$"])
              /\ source = ArgumentSource(v) => parsed.ok
        /\ parsed.ok =>
              \A i \in 1..Len(parsed.val.definitions) :
                 LET vs == VariableDefinitionsOf(parsed.val.definitions[i])
                 IN  \A j \in 1..Len(vs) :
                        vs[j].default_value # None
                            => ~HasVariable(vs[j].default_value[1])

\* The default value [1 {k: $x}], a variable two levels deep, has been
\* refused.
C15_Witness ==
    /\ Parsed
    /\ source = DefaultSource(Str(<<"[", "1", " ", "{", "k", ":", " ", "$",
                                    "x", "}", "]">>))
    /\ ~parsed.ok

\* Every selection set written with braces (its span is not the one
\* position a field without braces is given) at and below ss has a selection.
RECURSIVE BracedSetsNonEmpty(_)
BracedSetsNonEmpty(ss) ==
    /\ ss.span[1] # ss.span[2] => ss.items # <<>>
    /\ \A i \in 1..Len(ss.items) :
          ss.items[i].tag \in {"Field", "InlineFragment"}
              => BracedSetsNonEmpty(ss.items[i].selection_set)

\* C16: every SelectionSet parsed from a pair of braces has at least one
\* selection: an empty {} of an operation, a field, an inline fragment or a
\* fragment definition, at any nesting level, is a parse error.
C16_SelectionSetNonEmpty ==
    Parsed =>
        /\ \A p \in SetPrefixes :
              /\ source = SetSource(p, <<>>) => ~parsed.ok
              /\ source = SetSource(p, Str(<<"b">>)) => parsed.ok
        /\ parsed.ok =>
              \A i \in 1..Len(parsed.val.definitions) :
                 BracedSetsNonEmpty(parsed.val.definitions[i].selection_set)

\* The empty braces of an inline fragment inside a field have been refused.
C16_Witness ==
    /\ Parsed
    /\ source = Str(<<"{", "a", " ", "{", ".", ".", ".", " ", "o", "n", " ",
                      "T", " ", "{", "}", "}", "}">>)
    /\ ~parsed.ok

\* The first selection of the first definition of the parsed document.
FirstField == parsed.val.definitions[1].selection_set.items[1]

\* C17: a field written `a: b` parses to a Field with the alias a and the
\* name b, a field written as one name to a Field with that name and no
\* alias; its arguments are kept as a sequence in source order, duplicates
\* included.
C17_FieldAliasArguments ==
    Parsed =>
        /\ source = builtin_values =>
              /\ parsed.ok
              /\ FirstField.name = Str(<<"a">>)
              /\ FirstField.alias = None
              /\ FirstField.arguments =
                     <<<<Str(<<"t">>), [tag |-> "Boolean", boolean |-> TRUE]>>,
                       <<Str(<<"f">>), [tag |-> "Boolean", boolean |-> FALSE]>>,
                       <<Str(<<"n">>), [tag |-> "Null"]>>>>
        /\ \A aliased \in BOOLEAN, args \in SeqsUpTo(ArgChoices, MaxArgs) :
            source = FieldSource(aliased, args) =>
                /\ parsed.ok
                /\ FirstField.tag = "Field"
                /\ FirstField.name = Str(<<"b">>)
                /\ FirstField.alias =
                       IF aliased THEN Some(Str(<<"a">>)) ELSE None
                /\ FirstField.arguments =
                       [i \in 1..Len(args) |->
                           <<<<args[i][1]>>,
                             [tag |-> "Int",
                              int |-> [digits |-> <<Ch["0"] + args[i][2]>>,
                                       neg |-> FALSE]]>>]

\* The field `a: b(x: 1, x: 3)` has been parsed: an alias, and two
\* arguments of one name.
C17_Witness ==
    /\ Parsed
    /\ source = FieldSource(TRUE, <<<<Ch["x"], 1>>, <<Ch["x"], 3>>>>)
    /\ parsed.ok
    /\ Len(FirstField.arguments) = 2

\* The keys of the entries args in ascending order, each once.
RECURSIVE SortedKeys(_)
SortedKeys(K) ==
    IF K = {} THEN <<>>
    ELSE <<Min(K)>> \o SortedKeys(K \ {Min(K)})

KeysOf(args) == SortedKeys({args[i][1] : i \in 1..Len(args)})

\* The entry of the key k that is written last among args.
LastEntry(args, k) == args[Max({i \in 1..Len(args) : args[i][1] = k})]

\* The object parsed from the argument k of the first field.
FirstObject == FirstField.arguments[1][2]

\* C20: an object literal parses to a map with unique keys: a key written
\* more than once is held once, with the value written last, and the
\* entries are iterated and formatted in sorted key order, not source order.
C20_ObjectKeysUnique ==
    op = "parse_query" /\ pc \in {"parsed", "formatted"} =>
        \A args \in SeqsUpTo(ArgChoices, MaxArgs) :
            source = ObjectSource(args) =>
                /\ parsed.ok
                /\ FirstObject.tag = "Object"
                /\ FirstObject.fields =
                       [i \in 1..Len(KeysOf(args)) |->
                           <<<<KeysOf(args)[i]>>,
                             [tag |-> "Int",
                              int |-> [digits |->
                                           <<Ch["0"]
                                             + LastEntry(args, KeysOf(args)[i])[2]>>,
                                       neg |-> FALSE]]>>]
                /\ pc = "formatted" =>
                       text = Str(<<"{", "\n", " ", " ", "a", "(", "k", ":",
                                    " ", "{">>)
                              \o Join([i \in 1..Len(KeysOf(args)) |->
                                          ArgText(LastEntry(args,
                                                            KeysOf(args)[i]))],
                                      Str(<<",", " ">>))
                              \o Str(<<"}", ")", "\n", "}", "\n">>)

\* The object {x: 1, x: 3} has been parsed and formatted with one entry.
C20_Witness ==
    /\ op = "parse_query"
    /\ pc = "formatted"
    /\ source = ObjectSource(<<<<Ch["x"], 1>>, <<Ch["x"], 3>>>>)
    /\ Len(FirstObject.fields) = 1

-----------------------------------------------------------------------------
(* Lines and columns *)

\* The line terminators among the characters the stream has consumed: every
\* line feed, alone or behind a carriage return.
TerminatorsConsumed == {i \in 1..off : buf[i] = Ch["\n"]}

\* C19: at every point of scanning the line number is 1 plus the number of
\* line terminators consumed so far, \n and \r\n counting once each, and the
\* column is 1 behind each; also for the terminator that ends a comment and
\* for the newlines inside a block string.
C19_LineNumber ==
    op = "tokenize" =>
        /\ position.line = 1 + Cardinality(TerminatorsConsumed)
        /\ off > 0 /\ buf[off] = Ch["\n"] => position.column = 1

-----------------------------------------------------------------------------
(* Parse errors *)

\* The first token of the source, or the error of the tokenizer.
FirstToken == uncons(NewTokenStream(source))

\* What a definition starts with.
DefinitionStarts ==
    {Str(<<"{">>), KwQuery, KwMutation, KwSubscription, KwFragment}

\* parse_query or consume_definition has returned for a source whose first
\* token starts no definition.
NoDefinitionStarts ==
    /\ \/ op = "parse_query" /\ pc = "parsed"
       \/ op = "consume_definition" /\ pc = "consumed"
    /\ FirstToken.ok
    /\ FirstToken.tok.value \notin DefinitionStarts

-----------------------------------------------------------------------------
(* Claims about Document::format on operations *)

\* Whether the text s contains the text sub.
Contains(s, sub) == MatchIndices(s, sub, 0) # <<>>

\* The definitions of the parsed document that are operations with
\* variable definitions.
OperationsWithVariables ==
    {i \in DOMAIN parsed.val.definitions :
        /\ parsed.val.definitions[i].tag
               \in {"Query", "Mutation", "Subscription"}
        /\ parsed.val.definitions[i].variable_definitions # <<>>}

\* The variable definitions vars_ as a formatted operation shows them: each
\* as VariableDefinition displays it, ", " between two, in parentheses.
VariablesText(vars_) ==
    Str(<<"(">>)
        \o Join([i \in DOMAIN vars_ |->
                    display_variable_definition(NewFormatter(DefaultStyle),
                                                vars_[i]).buf],
                Str(<<",", " ">>))
        \o Str(<<")">>)

\* C21: the formatted text of a parsed document holds, for each query,
\* mutation and subscription with variable definitions, all of them in
\* order, separated by ", " and in parentheses, whether or not the
\* operation has a name.
C21_VariableDefinitions ==
    (op = "parse_query" /\ pc = "formatted")
        => \A i \in OperationsWithVariables :
              Contains(text,
                       VariablesText(
                           parsed.val.definitions[i].variable_definitions))

\* C21 for the operations the code does format so: queries with a name, and
\* named mutations and subscriptions with one variable definition.
C21_NamedOperations ==
    (op = "parse_query" /\ pc = "formatted")
        => \A i \in OperationsWithVariables :
              LET d == parsed.val.definitions[i]
              IN  (/\ d.name # None
                   /\ d.tag = "Query" \/ Len(d.variable_definitions) = 1)
                      => Contains(text, VariablesText(d.variable_definitions))


-----------------------------------------------------------------------------
(* Integer literals *)

\* The Value::Int of the literal c.
IntOf(c) ==
    [tag |-> "Int",
     int |-> [digits |-> c.digits, neg |-> c.neg /\ c.digits # Str(<<"0">>)]]

\* The first field's argument is the literal c, and parse_query has
\* returned.
IntParsed(c) ==
    /\ op = "parse_query"
    /\ pc \in {"parsed", "formatted"}
    /\ source = ArgumentSource(LiteralText(c))

\* C24, as stated: an integer literal out of the i64 range makes parse_query
\* fail with the error "number too large"; a literal in the range gives
\* the Number of exactly its value.
C24_NumberTooLarge ==
    \A c \in IntLiterals :
        IntParsed(c) =>
            IF c.fits
            THEN parsed.ok /\ FirstField.arguments[1][2] = IntOf(c)
            ELSE /\ ~parsed.ok
                 /\ parsed.err = "number too large to fit in target type"

\* C24, amended: an integer literal out of the i64 range makes parse_query
\* fail, with the error "number too large to fit in target type" above
\* i64::MAX and "number too small to fit in target type" below i64::MIN;
\* a literal in the range gives the Number of exactly its value, which
\* Document::format writes back digit for digit.
C24_IntegerRange ==
    /\ \A c \in IntLiterals :
          IntParsed(c) =>
              IF c.fits
              THEN /\ parsed.ok
                   /\ FirstField.arguments[1][2] = IntOf(c)
                   /\ pc = "formatted" =>
                          Contains(text,
                                   Str(<<"x", ":", " ">>)
                                   \o display_i64(IntOf(c).int)
                                   \o Str(<<")">>))
              ELSE /\ ~parsed.ok
                   /\ parsed.err =
                          IF c.neg
                          THEN "number too small to fit in target type"
                          ELSE "number too large to fit in target type"
    /\ (op = "parse_query" /\ pc = "parsed" /\ source = large_integer)
           => /\ ~parsed.ok
              /\ parsed.err = "number too large to fit in target type"

\* 9223372036854775808, one above i64::MAX, has been refused.
C24_Witness ==
    /\ IntParsed([neg |-> FALSE, digits |-> I64MinDigits, fits |-> FALSE])
    /\ ~parsed.ok


-----------------------------------------------------------------------------
(* Errors of uncons, checkpoints and the memoized token *)

\* The characters skip_whitespace passes over or starts a comment at.
Ignored == {Ch[" "], Ch["\t"], Ch["\n"], Ch["\r"], Ch[","], Ch["#"], 65279}

\* The errors of uncons other than the end of the input.
ScanErrors ==
    {"unexpected character", "bare dot is not supported",
     "unsupported integer", "unsupported float",
     "unterminated string value", "unterminated block string value"}

\* C29: when uncons returns a scan error or the end of input, the offset
\* and the position of the stream are what they were before the call: the
\* error stands at the start of the offending token (at the end of the text
\* for the end of input), and uncons called again returns the same error.
C29_ErrorLeavesStream ==
    [][(op = "tokenize" /\ last' # last /\ ~last'.ok)
          => /\ off' = off
             /\ position' = position
             /\ last'.at = off
             /\ IF off = Len(buf) THEN last'.err = "end of input"
                ELSE /\ last'.err \in ScanErrors
                     /\ buf[off + 1] \notin Ignored
             /\ ~uncons(Stream').ok
             /\ uncons(Stream').err = last'.err]_vars

\* uncons has returned "unterminated string value" behind a token it has
\* returned before, in the second line of the text.
C29_Witness ==
    /\ op = "tokenize"
    /\ ~last.ok
    /\ last # NotRun
    /\ last.err = "unterminated string value"
    /\ last.at = off
    /\ off > 0
    /\ position.line = 2

\* The stream ts with nothing memoized.
Fresh(ts) == [ts EXCEPT !.next_state = None]

\* What the stream ts yields from where it is: the tokens with the offset
\* and position behind each, and the error that ends them.
RECURSIVE Yield(_)
Yield(ts) ==
    LET r == uncons(ts)
    IN  IF r.ok
        THEN <<[tok |-> r.tok, off |-> r.ts.off, position |-> r.ts.position]>>
             \o Yield(r.ts)
        ELSE <<r.err>>

\* The step is an uncons that returns what a scan at the offset returns.
UnconsAsScanned ==
    LET r == uncons(Fresh(Stream))
    IN  /\ saved' = saved
        /\ last' # NotRun
        /\ last'.ok = r.ok
        /\ last'.at = off
        /\ IF r.ok
           THEN /\ last'.tok = r.tok
                /\ off' = r.ts.off
                /\ position' = r.ts.position
           ELSE /\ last'.err = r.err
                /\ off' = off
                /\ position' = position

\* The step is a checkpoint of where the stream is.
CheckpointTaken ==
    /\ saved' = Some([position |-> position, off |-> off])
    /\ off' = off
    /\ position' = position
    /\ last' = last

\* The step is a reset to the checkpoint taken.
ResetToCheckpoint ==
    /\ saved # None
    /\ saved' = saved
    /\ last' = last
    /\ off' = saved[1].off
    /\ position' = saved[1].position

\* C23: in any sequence of uncons, checkpoint and reset calls, reset puts
\* the stream where the checkpoint was taken, and whatever is memoized, the
\* stream yields from any place the tokens, offsets and positions that a
\* scan without the memoized token yields from there: after reset(c) it
\* yields what it did after checkpoint c was taken.
C23_CheckpointReset ==
    [][op = "tokenize"
          => /\ UnconsAsScanned \/ CheckpointTaken \/ ResetToCheckpoint
             /\ Yield(Stream') = Yield(Fresh(Stream'))]_vars

\* The stream has been reset to a checkpoint in the second line, behind
\* which it had returned a token: that token is the memoized one.
C23_Witness ==
    /\ op = "tokenize"
    /\ saved # None
    /\ off = saved[1].off
    /\ position = saved[1].position
    /\ position.line = 2
    /\ last.ok
    /\ last.at = off
    /\ next_state # None
    /\ next_state[1].at = off


-----------------------------------------------------------------------------
(* The tokens of a minified text *)

\* The tokens (kind and text) the stream of the text s yields, and the
\* error that ends them.
TokensOf(s) ==
    LET y == Yield(NewTokenStream(s))
    IN  [tokens |-> [i \in 1..(Len(y) - 1) |-> y[i].tok],
         end |-> y[Len(y)]]

\* The text s tokenizes without error.
Tokenizes(s) == TokensOf(s).end = "end of input"

\* The bits the loop of minify_query pushes for the tokens toks.
RECURSIVE BitsOf(_, _, _)
BitsOf(b, prev, toks) ==
    IF toks = <<>> THEN b
    ELSE BitsOf(push_bits(b, prev, Head(toks)),
                Head(toks).kind # "Punctuator", Tail(toks))

\* C27: for every source that tokenizes without error, minify_query
\* succeeds, its text tokenizes without error to the same kinds and texts
\* of tokens as the source, and minifying that text gives it again.
C27_MinifyKeepsTokens ==
    (op = "minify_query" /\ pc = "done" /\ Tokenizes(source))
        => /\ minified.ok
           /\ TokensOf(minified.val) = TokensOf(source)
           /\ Concat(BitsOf(<<>>, FALSE, TokensOf(minified.val).tokens))
                  = minified.val

\* C27 for the sources in which no "..." stands behind a number.
C27_AwayFromNumberSpread ==
    (/\ op = "minify_query"
     /\ pc = "done"
     /\ Tokenizes(source)
     /\ \A i \in 2..Len(TokensOf(source).tokens) :
           ~(/\ TokensOf(source).tokens[i - 1].kind
                    \in {"IntValue", "FloatValue"}
             /\ TokensOf(source).tokens[i].value = Str(<<".", ".", ".">>)))
        => /\ minified.ok
           /\ TokensOf(minified.val) = TokensOf(source)
           /\ Concat(BitsOf(<<>>, FALSE, TokensOf(minified.val).tokens))
                  = minified.val


-----------------------------------------------------------------------------
(* The literal write_quoted writes, as the tokenizer scans it *)

\* The literal written is scanned as one token of the kind k that is the
\* whole literal.
ScannedWhole(k) ==
    LET r == uncons(NewTokenStream(token))
    IN  /\ r.ok
        /\ r.tok.kind = k
        /\ r.tok.value = token
        /\ r.ts.off = Len(token)

\* C28: the literal write_quoted writes for a string s is scanned by the
\* tokenizer as exactly one token that is the whole literal, a StringValue
\* for the single-line form and a BlockString for the triple-quote form,
\* whatever s is.
C28_LiteralIsOneToken ==
    (op = "write_quoted" /\ pc = "quoted")
        => ScannedWhole(IF SingleLineForm(value) THEN "StringValue"
                        ELSE "BlockString")

\* C28 for the strings of the triple-quote form, and for those of the
\* single-line form that do not end with a backslash.
C28_AwayFromLastBackslash ==
    (/\ op = "write_quoted"
     /\ pc = "quoted"
     /\ ~(/\ SingleLineForm(value)
          /\ value # <<>>
          /\ value[Len(value)] = Ch["\\"]))
        => ScannedWhole(IF SingleLineForm(value) THEN "StringValue"
                        ELSE "BlockString")


-----------------------------------------------------------------------------
(* Claims about the visitors *)

\* The fields among the selections items and below them, each before the
\* fields of its own selection set, those of an inline fragment in its
\* place, in the order they are written; fragment spreads give none.
RECURSIVE FieldsInOrder(_)
FieldsInOrder(items) ==
    IF items = <<>> THEN <<>>
    ELSE LET f == Head(items)
         IN  (CASE f.tag = "Field" ->
                      <<f>> \o FieldsInOrder(f.selection_set.items)
                [] f.tag = "InlineFragment" ->
                      FieldsInOrder(f.selection_set.items)
                [] f.tag = "FragmentSpread" -> <<>>)
             \o FieldsInOrder(Tail(items))

\* Those of the definitions defs, in the order of the definitions.
RECURSIVE FieldsOfDefinitions(_)
FieldsOfDefinitions(defs) ==
    IF defs = <<>> THEN <<>>
    ELSE FieldsInOrder(Head(defs).selection_set.items)
         \o FieldsOfDefinitions(Tail(defs))

\* The fields the iterator of this behaviour is to return.
FieldsToVisit ==
    IF op = "visit_document" THEN FieldsOfDefinitions(document.definitions)
    ELSE FieldsInOrder(document.definitions[1].selection_set.items)

\* The iterator is at work or has returned None.
Visiting ==
    op \in {"visit_document", "visit_selection_set"}
        /\ pc \in {"iterating", "done"}

\* C25: iterating the fields of a Document or of a SelectionSet with
\* visit::<Field>() ends, and has then returned every field once, each
\* before the fields of its own selection set, in the order they are
\* written; the fields of inline fragments are returned in their place,
\* the inline fragments themselves and fragment spreads are not, and the
\* definitions of a document are covered in their order.  Until the end
\* the fields returned are the first of these.
C25_FieldsInOrder ==
    /\ [](Visiting =>
             /\ Len(visited) <= Len(FieldsToVisit)
             /\ visited = SubSeq(FieldsToVisit, 1, Len(visited))
             /\ pc = "done" => visited = FieldsToVisit)
    /\ <>(pc = "done")

\* The iterator over a document of two definitions, the first with an
\* inline fragment, has returned five fields and then None.
C25_Witness ==
    /\ op = "visit_document"
    /\ pc = "done"
    /\ Len(document.definitions) = 2
    /\ Len(visited) = 5
    /\ \E i \in 1..Len(document.definitions[1].selection_set.items) :
          document.definitions[1].selection_set.items[i].tag
              = "InlineFragment"


\* The nodes the hook h has been called with, in the order of the calls.
RECURSIVE CallsOf(_, _)
CallsOf(v, h) ==
    IF v = <<>> THEN <<>>
    ELSE (IF Head(v).hook = h THEN <<Head(v).node>> ELSE <<>>)
         \o CallsOf(Tail(v), h)

\* C26: walk_document calls visit_field once for each Field of the
\* document, those inside the selection sets of fields and of inline
\* fragments included, in the order of the document.
C26_VisitFieldOnce ==
    (op = "walk_document" /\ pc = "done")
        => CallsOf(visited, "visit_field")
               = FieldsOfDefinitions(document.definitions)

\* What walk_document does call visit_field with: each field that is an
\* item of the selection set of a definition, or of an inline fragment
\* there, twice in a row, and no field of the selection set of a field.
RECURSIVE FieldsWalked(_)
FieldsWalked(items) ==
    IF items = <<>> THEN <<>>
    ELSE LET f == Head(items)
         IN  (CASE f.tag = "Field" -> <<f, f>>
                [] f.tag = "InlineFragment" ->
                      FieldsWalked(f.selection_set.items)
                [] f.tag = "FragmentSpread" -> <<>>)
             \o FieldsWalked(Tail(items))

RECURSIVE FieldsWalkedOfDefinitions(_)
FieldsWalkedOfDefinitions(defs) ==
    IF defs = <<>> THEN <<>>
    ELSE FieldsWalked(Head(defs).selection_set.items)
         \o FieldsWalkedOfDefinitions(Tail(defs))

C26_VisitFieldTwice ==
    (op = "walk_document" /\ pc = "done")
        => CallsOf(visited, "visit_field")
               = FieldsWalkedOfDefinitions(document.definitions)


\* Whether a fragment spread, or an integer, is among the items and in the
\* selection sets below them.
RECURSIVE HasSpread(_)
HasSpread(items) ==
    \E i \in DOMAIN items :
        \/ items[i].tag = "FragmentSpread"
        \/ items[i].tag # "FragmentSpread"
             /\ HasSpread(items[i].selection_set.items)

RECURSIVE HasInt(_)
HasInt(items) ==
    \E i \in DOMAIN items :
        \/ items[i].tag = "Field"
             /\ \E j \in DOMAIN items[i].arguments :
                    items[i].arguments[j][2].tag = "Int"
        \/ items[i].tag # "FragmentSpread"
             /\ HasInt(items[i].selection_set.items)

Transformed == op = "transform_document" /\ pc = "done"

\* C30: the Transformer that overrides no method returns Keep from
\* transform_document for every document, fragment spreads or not.
C30_DefaultKeeps ==
    (Transformed /\ transformer = "none") => transformed = Keep

\* What transform_document does return: the Transformer that overrides
\* nothing returns Keep for the documents without a fragment spread, and
\* for every other a Replace of a document equal to the one it was given;
\* the one that replaces integers returns Keep where there is neither an
\* integer nor a spread.
C30_KeepWithoutSpread ==
    Transformed =>
        LET spread == \E i \in DOMAIN document.definitions :
                          HasSpread(document.definitions[i].selection_set.items)
            int == \E i \in DOMAIN document.definitions :
                       HasInt(document.definitions[i].selection_set.items)
        IN  /\ transformed.keep
                <=> ~spread /\ ~(transformer = "transform_value" /\ int)
            /\ (transformer = "none" /\ ~transformed.keep)
                   => transformed.val = document


\* C22: formatting never fails, whatever the document and the style: the
\* indent never goes below zero (dec_indent does not panic), every increase
\* of the indent is undone by an equal decrease, and the indent is zero
\* once the document is written.
C22_FormattingNeverFails ==
    op = "format" =>
        /\ pc # "panicked"
        /\ replay.panic = None
        /\ pc = "done" => replay.indent = U32(0)

\* The number of increases of the indent less that of the decreases among
\* the calls.
RECURSIVE Depth(_)
Depth(calls_) ==
    IF calls_ = <<>> THEN 0
    ELSE (IF Head(calls_) \in {"inc_indent", "+="} THEN 1 ELSE -1)
         + Depth(Tail(calls_))

\* What does hold: the increases and the decreases of the indent are made
\* in pairs, each decrease after its increase (of the calls still to come
\* no tail has more increases than decreases), and with a style.indent
\* below 2^16 formatting does not panic, the indent is style.indent times
\* the number of blocks open, and zero at the end.
C22_IndentBalanced ==
    (op = "format" /\ pc # "start") =>
        /\ \A i \in 1..Len(replay.calls) :
               Depth(SubSeq(replay.calls, i, Len(replay.calls))) <= 0
        /\ replay.style_indent[1] = 0 =>
               /\ replay.panic = None
               /\ replay.indent
                      = U32(replay.style_indent[2] * (-Depth(replay.calls)))
               /\ pc = "done" <=> replay.calls = <<>>

=============================================================================
